---- MODULE Spec2Model ----
(***************************************************************************)
(* A model of poc-infra-generator: the persona registry and the execution  *)
(* epochs, the startup-time declarations and their registries, the         *)
(* build-time stores (ports, passwords) and secret routing, and the Store  *)
(* with its in-memory and postgres backends.                               *)
(***************************************************************************)
EXTENDS Integers, Sequences, FiniteSets, TLC

\* JavaScript `undefined`, wherever a string-valued slot may be unset.
Undefined == "undefined"

\* The outcome of a call that returned normally.
Ok == "ok"

\* An optional JSON value: <<>> is `undefined`, <<v>> is the value v.
None == <<>>
Some(v) == <<v>>

Range(s) == {s[i] : i \in DOMAIN s}

\* `const v = ...; F(v)`: the value is computed once and handed to what follows.
With(v, F(_)) == F(v)

(***************************************************************************)
(* id.ts.  An ID is modelled by its `parts`, a sequence of segment strings *)
(* (the segments of the model hold no '.', '[' or ']', so encodeIdPart     *)
(* leaves them as they are).                                               *)
(***************************************************************************)
RECURSIVE Join(_, _)
Join(parts, sep) ==
  IF parts = <<>> THEN ""
  ELSE IF Len(parts) = 1 THEN parts[1]
  ELSE parts[1] \o sep \o Join(Tail(parts), sep)

rootId(name) == <<name>>
child(id, suffix) == Append(id, suffix)
IdValue(id) == Join(id, ".")

\* The md5 digest of the ID's value, kept symbolic: distinct values have
\* distinct digests.
md5(s) == "md5(" \o s \o ")"

\* hash prefix, then the sanitized segments, each behind an underscore
\* (every ID of the model is short enough for all its segments to fit).
idToSafeName(id) == md5(IdValue(id)) \o "_" \o Join(id, "_")

(***************************************************************************)
(* State.                                                                  *)
(***************************************************************************)
VARIABLES
  envPERSONA,          \* process.env.PERSONA (Undefined when not set)
  registeredPersonas,  \* persona.ts: the registry, in insertion order
  currentPersona,      \* persona.ts: registry key of the running persona
  invoked,             \* registry keys whose entry point was invoked, in order
  pending,             \* entry points launched in-process and not settled yet
  ipState,             \* where the in-process persona's entry point stands
  logged,              \* number of errors handed to console.error
  lastCall             \* the last call made by the program text and its outcome

personaVars ==
  <<envPERSONA, registeredPersonas, currentPersona, invoked, pending, ipState,
    logged, lastCall>>

\* persona.ts: runningInProcess, fixed when the module is loaded.
runningInProcess == envPERSONA = Undefined

\* A call and what it came to: its arguments, the error it raised (or Ok) and
\* the value it returned.
CallRet(op, arg, outcome, ret) ==
  [op |-> op, arg |-> arg, outcome |-> outcome, ret |-> ret]
Call(op, outcome) == CallRet(op, <<>>, outcome, <<>>)
NoCall == Call("none", Ok)
Raised(c) == c.outcome # Ok

(***************************************************************************)
(* persona.ts: Persona, the registry and the epoch assertions.             *)
(***************************************************************************)
\* What an entry point does when it is called: return or throw at once, or
\* return a promise that resolves or rejects later.
EntryBehaviour == {"returns", "throws", "resolves", "rejects"}

PersonaRec(id, host, key, entry) ==
  [id |-> id, host |-> host, environmentVariableValue |-> key, entryPoint |-> entry]

HasPersona(reg, key) == \E i \in DOMAIN reg : reg[i].environmentVariableValue = key
PersonaAt(reg, key) ==
  reg[CHOOSE i \in DOMAIN reg : reg[i].environmentVariableValue = key]

inProcessPersona ==
  PersonaRec(rootId("inProcessPersona"), "node",
             idToSafeName(rootId("inProcessPersona")), "resolves")

buildPersona == PersonaRec(rootId("build-infra"), "build", "build-infra", "returns")

\* The constructor without its check for a second 'cli' persona.
NewPersonaKeyed_AnyCli(reg, id, host, entry, key) ==
  IF HasPersona(reg, key)
  THEN [reg |-> reg, outcome |-> "Error: Persona already registered"]
  ELSE [reg |-> Append(reg, PersonaRec(id, host, key, entry)), outcome |-> Ok]

\* new Persona(id, host, entryPoint, opts): the registry after the call and
\* the error raised, if any.  keyOpt is opts.environmentVariableValue.
NewPersonaKeyed(reg, id, host, entry, key) ==
  IF HasPersona(reg, key)
  THEN [reg |-> reg, outcome |-> "Error: Persona already registered"]
  ELSE IF host = "cli" /\ \E i \in DOMAIN reg : reg[i].host = "cli"
  THEN [reg |-> reg, outcome |-> "Error: CLI persona already registered"]
  ELSE [reg |-> Append(reg, PersonaRec(id, host, key, entry)), outcome |-> Ok]

NewPersonaIn(reg, id, host, entry, keyOpt) ==
  NewPersonaKeyed(reg, id, host, entry,
                  IF keyOpt # Undefined THEN keyOpt ELSE idToSafeName(id))

\* assertStartupTime testing the wrong way round.
assertStartupTime_Inverted(cp) ==
  IF cp = Undefined THEN "Error: This function is meant to be executed at startup"
  ELSE Ok

assertStartupTime(cp) ==
  IF cp # Undefined THEN "Error: This function is meant to be executed at startup"
  ELSE Ok

assertNotStartup(cp) ==
  IF cp = Undefined THEN "Error: This function is not meant to be executed at startup"
  ELSE Ok

assertBuildTime(cp) ==
  IF cp # buildPersona.environmentVariableValue
  THEN "Error: This function can only be called at build time"
  ELSE Ok

\* assertRuntime: "Running in a non-build persona and not in the startup phase".
assertRuntime(reg, cp) ==
  IF cp = Undefined THEN "Error: This function is meant to be executed at runtime"
  ELSE IF PersonaAt(reg, cp).host = "build"
  THEN "Error: This function is meant to be executed at runtime"
  ELSE Ok

\* String.prototype.trim on the PERSONA values of the model.
Trim(s) == IF s = " build-infra " THEN "build-infra" ELSE s

\* ResolvePersona falling back to the in-process persona when nothing is
\* registered under the value of PERSONA.
ResolvePersona_Fallback(reg, idArg, env) ==
  IF idArg # <<>> /\ HasPersona(reg, idToSafeName(idArg))
  THEN [outcome |-> Ok, key |-> idToSafeName(idArg)]
  ELSE IF idArg # <<>>
  THEN [outcome |-> "Error: No persona registered with ID", key |-> Undefined]
  ELSE IF env # Undefined /\ env # "" /\ HasPersona(reg, Trim(env))
  THEN [outcome |-> Ok, key |-> Trim(env)]
  ELSE [outcome |-> Ok, key |-> inProcessPersona.environmentVariableValue]

\* runPersona, lines 107-122: the persona the call resolves to.
ResolvePersona(reg, idArg, env) ==
  IF idArg # <<>>
  THEN IF HasPersona(reg, idToSafeName(idArg))
       THEN [outcome |-> Ok, key |-> idToSafeName(idArg)]
       ELSE [outcome |-> "Error: No persona registered with ID", key |-> Undefined]
  ELSE IF env # Undefined /\ env # ""
  THEN IF HasPersona(reg, Trim(env))
       THEN [outcome |-> Ok, key |-> Trim(env)]
       ELSE [outcome |-> "Error: No persona registered", key |-> Undefined]
  ELSE IF env = Undefined
  THEN [outcome |-> Ok, key |-> inProcessPersona.environmentVariableValue]
  ELSE [outcome |-> "AssertionError: runningInProcess", key |-> Undefined]

\* The loop awaiting each entry point before it calls the next.
RECURSIVE LaunchAll_Sequential(_, _, _)
LaunchAll_Sequential(ps, inv, pend) ==
  IF ps = <<>> THEN [invoked |-> inv, pending |-> pend, ipState |-> "awaiting"]
  ELSE IF Head(ps).entryPoint = "throws"
  THEN [invoked |-> Append(inv, Head(ps).environmentVariableValue),
        pending |-> pend, ipState |-> "rejected"]
  ELSE LaunchAll_Sequential(Tail(ps), Append(inv, Head(ps).environmentVariableValue), pend)

\* The synchronous part of the in-process persona's entry point: it calls the
\* entry point of every other 'node' persona in registry order.  A synchronous
\* throw leaves the loop (the async function's promise rejects).
RECURSIVE LaunchAll(_, _, _)
LaunchAll(ps, inv, pend) ==
  IF ps = <<>> THEN [invoked |-> inv, pending |-> pend, ipState |-> "awaiting"]
  ELSE LET p == Head(ps)
           inv2 == Append(inv, p.environmentVariableValue) IN
       IF p.entryPoint = "throws"
       THEN [invoked |-> inv2, pending |-> pend, ipState |-> "rejected"]
       ELSE LaunchAll(Tail(ps), inv2,
                      IF p.entryPoint \in {"resolves", "rejects"}
                      THEN pend \cup {p.environmentVariableValue} ELSE pend)

IsNodeWorker(p) ==
  p.environmentVariableValue # inProcessPersona.environmentVariableValue /\ p.host = "node"

personasToRun(reg) == SelectSeq(reg, IsNodeWorker)

\* The outcome of a runPersona call that raised before it ran anything.
Refused(cp, inv, pend, ips, lg, err) ==
  [currentPersona |-> cp, invoked |-> inv, pending |-> pend,
   ipState |-> ips, logged |-> lg, outcome |-> err]

\* Dispatch running every persona as it runs the in-process persona.
Dispatch_AsInProcess(reg, inv, pend, ips, lg, key) ==
  With(LaunchAll(personasToRun(reg), Append(inv, key), pend), LAMBDA l :
    [currentPersona |-> key, invoked |-> l.invoked, pending |-> l.pending,
     ipState |-> l.ipState,
     logged |-> IF l.ipState = "rejected" THEN lg + 1 ELSE lg,
     outcome |-> Ok])

\* runPersona, lines 127-129: currentPersona is set and the entry point of the
\* persona registered under `key` is called; a rejection is logged, a
\* synchronous throw leaves runPersona.
Dispatch(reg, inv, pend, ips, lg, key) ==
  IF key = inProcessPersona.environmentVariableValue
  THEN With(LaunchAll(personasToRun(reg), Append(inv, key), pend), LAMBDA l :
         [currentPersona |-> key, invoked |-> l.invoked, pending |-> l.pending,
          ipState |-> l.ipState,
          logged |-> IF l.ipState = "rejected" THEN lg + 1 ELSE lg,
          outcome |-> Ok])
  ELSE With(PersonaAt(reg, key), LAMBDA p :
         [currentPersona |-> key, invoked |-> Append(inv, key),
          pending |-> IF p.entryPoint \in {"resolves", "rejects"}
                      THEN pend \cup {key} ELSE pend,
          ipState |-> ips, logged |-> lg,
          outcome |-> IF p.entryPoint = "throws"
                      THEN "Error: thrown by the entry point" ELSE Ok])

\* RunResolved without the check of lines 124-126.
RunResolved_Unguarded(reg, cp, inv, pend, ips, lg, r) ==
  IF r.outcome # Ok THEN Refused(cp, inv, pend, ips, lg, r.outcome)
  ELSE Dispatch(reg, inv, pend, ips, lg, r.key)

\* runPersona, lines 123-130: what the call does with the persona r it resolved.
RunResolved(reg, cp, inv, pend, ips, lg, r) ==
  IF r.outcome # Ok THEN Refused(cp, inv, pend, ips, lg, r.outcome)
  ELSE IF cp # Undefined
  THEN Refused(cp, inv, pend, ips, lg, "Error: Already running persona")
  ELSE Dispatch(reg, inv, pend, ips, lg, r.key)

\* runPersona(id): the whole call.  idArg = <<>> stands for no argument.
RunPersonaResult(reg, cp, inv, pend, ips, lg, idArg, env) ==
  RunResolved(reg, cp, inv, pend, ips, lg, ResolvePersona(reg, idArg, env))

(***************************************************************************)
(* The registries the startup-time declarations fill.                      *)
(***************************************************************************)
VARIABLES
  secrets,          \* secret.ts: [name, kind, id], in declaration order
  volumes,          \* docker-compose.ts: the id values of the volumes
  services,         \* docker-compose.ts: [name, environment], in declaration order
  registeredPaths,  \* build-time-file.ts: the paths of the declared files
  callbacks,        \* build-time.ts: onBuild callbacks (the path each one writes)
  cliCommands,      \* cli-command.ts: the registered command names
  cliPersona,       \* cli-command.ts: key of the shared 'cli' persona
  files             \* build-git-ignore.ts: the ignored paths, relative to build/

declVars ==
  <<secrets, volumes, services, registeredPaths, callbacks, cliCommands,
    cliPersona, files>>

\* All registries as one record, so that a constructor that calls other
\* constructors can be followed step by step.
Regs ==
  [personas |-> registeredPersonas, secrets |-> secrets, volumes |-> volumes,
   services |-> services, registeredPaths |-> registeredPaths,
   callbacks |-> callbacks, cliCommands |-> cliCommands,
   cliPersona |-> cliPersona, files |-> files]

Done(R) == [regs |-> R, outcome |-> Ok]
Throw(R, err) == [regs |-> R, outcome |-> err]

\* Run `F` on the registries `r` left, unless the step before it raised.
Then(r, F(_)) == IF r.outcome # Ok THEN r ELSE F(r.regs)

\* A file path is the sequence of its segments below the project directory.
BuildPath(id, ext) == <<"build">> \o [id EXCEPT ![Len(id)] = @ \o ext]

SecretNames(secs) == {secs[i].name : i \in DOMAIN secs}
ServiceNames(svcs) == {svcs[i].name : i \in DOMAIN svcs}

\* new Persona(...) as a step over the registries.
NewPersonaStep(R, id, host, entry, keyOpt) ==
  With(NewPersonaIn(R.personas, id, host, entry, keyOpt), LAMBDA r :
    [regs |-> [R EXCEPT !.personas = r.reg], outcome |-> r.outcome])

\* new Secret(id, value): kind tells which build-time computation it wraps.
NewSecretIn(R, id, kind) ==
  With(idToSafeName(id), LAMBDA name :
    IF name \in SecretNames(R.secrets)
    THEN Throw(R, "Error: Secret already defined")
    ELSE Done([R EXCEPT !.secrets = Append(@, [name |-> name, kind |-> kind, id |-> id])]))

\* new DockerVolume(id)
NewDockerVolumeIn(R, id) ==
  IF IdValue(id) \in R.volumes
  THEN Throw(R, "Error: Volume already defined")
  ELSE Done([R EXCEPT !.volumes = @ \cup {IdValue(id)}])

\* new DockerService(id, info)
NewDockerServiceIn(R, cp, id, environment) ==
  IF assertStartupTime(cp) # Ok THEN Throw(R, assertStartupTime(cp))
  ELSE IF idToSafeName(id) \in ServiceNames(R.services)
  THEN Throw(R, "Error: Service already defined")
  ELSE Done([R EXCEPT !.services =
               Append(@, [name |-> idToSafeName(id), environment |-> environment])])

\* new BuildTimeFile(id, opts): filepath is the resolved path, hasContent
\* tells whether opts.content is given.
\* The constructor without its check of registeredPaths.
NewBuildTimeFileIn_Unchecked(R, cp, filepath, hasContent) ==
  IF assertStartupTime(cp) # Ok THEN Throw(R, assertStartupTime(cp))
  ELSE Done([R EXCEPT !.registeredPaths = @ \cup {filepath},
                      !.callbacks = IF hasContent THEN Append(@, filepath) ELSE @])

NewBuildTimeFileIn(R, cp, filepath, hasContent) ==
  IF assertStartupTime(cp) # Ok THEN Throw(R, assertStartupTime(cp))
  ELSE IF filepath \in R.registeredPaths
  THEN Throw(R, "Error: BuildTimeFile with path already exists")
  ELSE Done([R EXCEPT !.registeredPaths = @ \cup {filepath},
                      !.callbacks = IF hasContent THEN Append(@, filepath) ELSE @])

\* new BuildTimeStore(id)
NewBuildTimeStoreIn(R, cp, id) ==
  IF assertStartupTime(cp) # Ok THEN Throw(R, assertStartupTime(cp))
  ELSE NewBuildTimeFileIn(R, cp, BuildPath(id, ".json"), FALSE)

\* gitIgnorePath(filepath)
gitIgnorePathIn(R, cp, filepath) ==
  IF assertStartupTime(cp) # Ok THEN Throw(R, assertStartupTime(cp))
  ELSE IF filepath = <<>> \/ Head(filepath) # "build"
  THEN Throw(R, "Error: File is not in the build directory")
  ELSE IF Tail(filepath) \in R.files
  THEN Throw(R, "Error: File already ignored")
  ELSE Done([R EXCEPT !.files = @ \cup {Tail(filepath)}])

\* new PostgresStore(id): a password, a port, a volume and the postgres service.
NewPostgresStoreIn(R, cp, id) ==
  IF assertStartupTime(cp) # Ok THEN Throw(R, assertStartupTime(cp))
  ELSE Then(Then(Then(NewSecretIn(R, child(id, "password"), "password"),
                      LAMBDA X : NewSecretIn(X, child(id, "port"), "port")),
                 LAMBDA X : NewDockerVolumeIn(X, child(id, "data"))),
            LAMBDA X : NewDockerServiceIn(X, cp, id,
              <<[key |-> "POSTGRES_PASSWORD",
                 ref |-> idToSafeName(child(id, "password"))]>>))

\* new InMemoryStore(id)
NewInMemoryStoreIn(R, cp, id) ==
  IF assertStartupTime(cp) # Ok THEN Throw(R, assertStartupTime(cp)) ELSE Done(R)

\* new Store(id)
NewStoreIn(R, cp, inProcess, id) ==
  IF assertStartupTime(cp) # Ok THEN Throw(R, assertStartupTime(cp))
  ELSE IF inProcess THEN NewInMemoryStoreIn(R, cp, id)
  ELSE NewPostgresStoreIn(R, cp, id)

\* registerCliCommand(cliCommand)
registerCliCommandIn(R, cp, commandName) ==
  IF assertStartupTime(cp) # Ok THEN Throw(R, assertStartupTime(cp))
  ELSE Then(IF R.cliPersona # Undefined THEN Done(R)
            ELSE Then(NewPersonaStep(R, rootId("cli"), "cli", "resolves", Undefined),
                      LAMBDA X : Done([X EXCEPT !.cliPersona = idToSafeName(rootId("cli"))])),
            LAMBDA X :
              IF commandName \in X.cliCommands
              THEN Throw(X, "Error: CLI command already registered")
              ELSE Done([X EXCEPT !.cliCommands = @ \cup {commandName}]))

\* createRuntimeWrapper(id, command): the command's own persona and its two
\* launch scripts.
createRuntimeWrapperIn(R, cp, id, commandName) ==
  Then(Then(NewPersonaStep(R, id, "cli-command", "resolves", Undefined),
            LAMBDA X : NewBuildTimeFileIn(X, cp, <<"bin", commandName \o ".bat">>, TRUE)),
       LAMBDA X : NewBuildTimeFileIn(X, cp, <<"bin", commandName>>, TRUE))

\* new CliCommand(id, commandName, entryPoint)
NewCliCommandIn(R, cp, id, commandName) ==
  IF assertStartupTime(cp) # Ok THEN Throw(R, assertStartupTime(cp))
  ELSE Then(registerCliCommandIn(R, cp, commandName),
            LAMBDA X : createRuntimeWrapperIn(X, cp, id, commandName))

\* The registries when the library's modules have been loaded: the built-in
\* personas, the manifest, the ignore list, the two ledgers and the CLI's
\* .env and .gitignore.
InitRegs ==
  [personas |-> <<inProcessPersona, buildPersona>>,
   secrets |-> <<>>, volumes |-> {}, services |-> <<>>,
   registeredPaths |->
     {<<"build", "docker-compose.yml">>, <<"build", ".gitignore">>,
      <<"build", "passwords.json">>, <<"build", "ports.json">>,
      <<"bin", ".env">>, <<"bin", ".gitignore">>},
   callbacks |->
     <<(<<"build", ".gitignore">>), (<<"build", "docker-compose.yml">>),
       (<<"bin", ".env">>), (<<"bin", ".gitignore">>)>>,
   cliCommands |-> {}, cliPersona |-> Undefined,
   files |-> {<<"docker-compose.yml">>, <<"passwords.json">>}]

SetRegs(R) ==
  /\ registeredPersonas' = R.personas
  /\ secrets' = R.secrets
  /\ volumes' = R.volumes
  /\ services' = R.services
  /\ registeredPaths' = R.registeredPaths
  /\ callbacks' = R.callbacks
  /\ cliCommands' = R.cliCommands
  /\ cliPersona' = R.cliPersona
  /\ files' = R.files

(***************************************************************************)
(* The Store (store.ts) and the build-time state (build-time-store.ts,     *)
(* port.ts, password.ts, secret.ts, docker-compose.ts).                    *)
(***************************************************************************)
VARIABLES
  backingStore, \* Store.backingStore of the program's store, once constructed
  indexes,    \* PostgresStore.indexes: the ids of its indexes, in declaration order
  memData,    \* InMemoryStore.data: key -> [value, indexKeys]
  memIndex,   \* InMemoryStore.indexes: id -> [indexer, data: indexKey -> key -> rows]
  pgPrimary,  \* postgres: the committed rows of the primary table, key -> value
  pgIndex,    \* postgres: the committed rows of each index table, in id order
  tx,         \* postgres: each client's open modify transaction
  cursor      \* the allKeys enumeration a client has open, and what it yielded

storeVars ==
  <<backingStore, indexes, memData, memIndex, pgPrimary, pgIndex, tx, cursor>>

VARIABLES
  diskFiles,      \* the build folder: ledger name -> its JSON text, if written
  storeContents,  \* BuildTimeStore.contents of each ledger in this process
  manifest,       \* docker-compose.yml: service name -> its environment lines
  processEnv,     \* process.env of this process, apart from PERSONA
  buildValues,    \* the values Secret.get() returned in the build persona, by name
  lazyCalls       \* the valueLazy calls of getOrInsert, by file and key

buildVars ==
  <<diskFiles, storeContents, manifest, processEnv, buildValues, lazyCalls>>

\* Number of declarations made so far that changed a registry.
VARIABLE declCount

(***************************************************************************)
(* What the process does at run time besides its store: the connection to  *)
(* the database (store.ts, createPool), the teardown handlers               *)
(* (teardown.ts) and the command line (cli-command.ts).                    *)
(***************************************************************************)
VARIABLES
  pool,       \* PostgresStore.createPool: where its retry loop stands
  handlers,   \* teardown.ts, handlers: what each registered handler does
  teardownRun, \* the call of teardown(): the handlers invoked, its promise
  argv,       \* process.argv[2], the command given on the command line
  commandEntry, \* cli-command.ts, cliCommands[name].entryPoint: what it does
  exitCode    \* the status the process exited with, once it has

\* The identities (id.ts) the program builds, character by character: a
\* string is the sequence of its characters.
VARIABLES
  segsA,      \* the segments an identity is built from
  segsB,      \* the segments of a second identity
  tmpl,       \* a template: its strings and the values interpolated
  idOut       \* what the last function applied to them returned

idVars == <<segsA, segsB, tmpl, idOut>>

\* Two processes, and two transactions, side by side.
VARIABLES
  twin,       \* what a call returned in memory and what it returned on postgres
  txns,       \* postgres: the statements each concurrent transaction has run
  poolUse     \* PostgresStore.postgresPool: the calls of createPool, who awaits it

sideVars == <<twin, txns, poolUse>>

runtimeVars ==
  <<pool, handlers, teardownRun, argv, commandEntry, exitCode, idVars, sideVars>>

vars == <<personaVars, declVars, storeVars, buildVars, declCount, runtimeVars>>

(***************************************************************************)
(* Bounds of the model.                                                    *)
(***************************************************************************)
\* At most this many declarations change a registry in one process.
MaxDecls == 2

\* The values PERSONA takes: unset, empty, the build persona's key (bare and
\* padded), the key of a persona the program may declare, and a key nothing
\* is registered under.
EnvValues ==
  {Undefined, "", "build-infra", " build-infra ",
   idToSafeName(<<"app", "a">>), "nonesuch"}

(***************************************************************************)
(* Actions: declarations.  Each one is a call of the program text; it may  *)
(* come at startup or, wrongly, after runPersona.                          *)
(***************************************************************************)
DeclStep(op, r) ==
  /\ r.regs # Regs => declCount < MaxDecls
  /\ SetRegs(r.regs)
  /\ declCount' = IF r.regs # Regs THEN declCount + 1 ELSE declCount
  /\ lastCall' = Call(op, r.outcome)
  /\ UNCHANGED <<envPERSONA, currentPersona, invoked, pending, ipState, logged>>
  /\ UNCHANGED <<memData, memIndex, pgPrimary, pgIndex, tx, cursor>>
  /\ UNCHANGED <<buildVars, runtimeVars>>

DeclOnly(op, r) == DeclStep(op, r) /\ UNCHANGED <<backingStore, indexes>>

NewPersona(id, host, entry, keyOpt) ==
  DeclOnly("new Persona", NewPersonaStep(Regs, id, host, entry, keyOpt))

NewSecret(id, kind) ==
  DeclOnly("new Secret", NewSecretIn(Regs, id, kind))

NewDockerVolume(id) ==
  DeclOnly("new DockerVolume", NewDockerVolumeIn(Regs, id))

NewDockerService(id) ==
  DeclOnly("new DockerService",
              NewDockerServiceIn(Regs, currentPersona, id, <<>>))

NewBuildTimeFile(id, hasContent) ==
  DeclOnly("new BuildTimeFile",
              NewBuildTimeFileIn(Regs, currentPersona, BuildPath(id, ""), hasContent))

NewBuildTimeStore(id) ==
  DeclOnly("new BuildTimeStore", NewBuildTimeStoreIn(Regs, currentPersona, id))

GitIgnorePath(filepath) ==
  DeclOnly("gitIgnorePath", gitIgnorePathIn(Regs, currentPersona, filepath))

NewStore(id) ==
  LET r == NewStoreIn(Regs, currentPersona, runningInProcess, id) IN
  /\ DeclStep("new Store", r)
  /\ backingStore' = IF r.outcome # Ok \/ backingStore # Undefined THEN backingStore
                     ELSE IF runningInProcess THEN "InMemoryStore"
                     ELSE "PostgresStore"
  /\ UNCHANGED indexes

NewCliCommand(id, commandName) ==
  DeclOnly("new CliCommand", NewCliCommandIn(Regs, currentPersona, id, commandName))

(***************************************************************************)
(* Actions: runPersona and the event loop behind it.                       *)
(***************************************************************************)
\* A promise returned by an entry point settles; a rejection is logged by the
\* .catch(console.error) attached to it.  The promise of the 'cli' entry point
\* the in-process persona awaits settles that persona's own promise, whose
\* rejection runPersona's .catch(console.error) logs.
SettleEntryPoint(key) ==
  /\ key \in pending
  /\ pending' = pending \ {key}
  /\ logged' = IF PersonaAt(registeredPersonas, key).entryPoint = "rejects"
               THEN logged + 1 ELSE logged
  /\ ipState' = IF ipState = "cli" /\ PersonaAt(registeredPersonas, key).host = "cli"
                THEN IF PersonaAt(registeredPersonas, key).entryPoint = "rejects"
                     THEN "rejected" ELSE "done"
                ELSE ipState
  /\ UNCHANGED <<envPERSONA, registeredPersonas, currentPersona, invoked,
                 lastCall, declCount>>
  /\ UNCHANGED <<declVars, storeVars, buildVars, runtimeVars>>

\* The in-process persona resumes after `await Promise.all(promises)`: it runs
\* the 'cli' persona, if there is one.
InProcessResume ==
  /\ ipState = "awaiting"
  /\ pending \ {inProcessPersona.environmentVariableValue} = {}
  /\ LET clis == SelectSeq(registeredPersonas, LAMBDA p : p.host = "cli") IN
     /\ invoked' = IF clis # <<>>
                   THEN Append(invoked, clis[1].environmentVariableValue)
                   ELSE invoked
     \* await cliPersona.entryPoint(): a throw rejects the in-process
     \* persona's promise, which runPersona's .catch(console.error) logs
     /\ ipState' = IF clis = <<>> \/ clis[1].entryPoint = "returns" THEN "done"
                   ELSE IF clis[1].entryPoint = "throws" THEN "rejected"
                   ELSE "cli"
     /\ pending' = IF clis # <<>> /\ clis[1].entryPoint \in {"resolves", "rejects"}
                   THEN pending \cup {clis[1].environmentVariableValue}
                   ELSE pending
     /\ logged' = IF clis # <<>> /\ clis[1].entryPoint = "throws"
                  THEN logged + 1 ELSE logged
  /\ UNCHANGED <<envPERSONA, registeredPersonas, currentPersona,
                 lastCall, declCount>>
  /\ UNCHANGED <<declVars, storeVars, buildVars, runtimeVars>>

(***************************************************************************)
(* JavaScript values.  A Map is the sequence of its <<key, value>> pairs   *)
(* in insertion order.  A JSON value is a record: [num |-> n], [str |-> s] *)
(* or an object with the fields it has.                                    *)
(***************************************************************************)
MapHas(m, k) == \E i \in DOMAIN m : m[i][1] = k
MapGet(m, k) == m[CHOOSE i \in DOMAIN m : m[i][1] = k][2]
MapSet(m, k, v) ==
  IF MapHas(m, k)
  THEN [i \in DOMAIN m |-> IF m[i][1] = k THEN <<k, v>> ELSE m[i]]
  ELSE Append(m, <<k, v>>)
MapDelete(m, k) == SelectSeq(m, LAMBDA e : e[1] # k)
MapKeys(m) == [i \in DOMAIN m |-> m[i][1]]
MapValues(m) == [i \in DOMAIN m |-> m[i][2]]

RECURSIVE Flat(_)
Flat(ss) == IF ss = <<>> THEN <<>> ELSE Head(ss) \o Flat(Tail(ss))

\* The people of the messages, the values under test and the primary keys.
Names == {"Alice", "Bob", "Charlie"}
Message(from, to) == [from |-> from, to |-> to]
mEmpty == Message("Alice", <<>>)
mOne == Message("Alice", <<"Bob">>)
mDup == Message("Alice", <<"Bob", "Bob">>)
mCharlie == Message("Charlie", <<"Bob", "Alice">>)
Messages == {mEmpty, mOne, mDup, mCharlie}
Keys == {"key1", "key2"}

\* port.ts
START_OF_PORT_RANGE == 35000

\* The port numbers the model can hand out.
MaxPorts == 4
PortNumbers == {[num |-> START_OF_PORT_RANGE + i] : i \in 0..MaxPorts}
\* crypto.randomBytes(32).toString('hex'): the n-th draw.
randomBytes(n) == [str |-> "random-" \o ToString(n)]
Texts ==
  {randomBytes(n) : n \in 1..MaxPorts} \cup {[str |-> "s3cret"], [str |-> "other"]}
InlineValues ==
  {[to |-> m.to] : m \in Messages} \cup {[from |-> m.from] : m \in Messages}
JsonValues == Messages \cup InlineValues \cup PortNumbers \cup Texts

Quote(s) == "\"" \o s \o "\""
JSONArray(a) == "[" \o Join([i \in DOMAIN a |-> Quote(a[i])], ",") \o "]"

\* JSON.stringify(v): properties whose value is undefined are left out.
JSONStringify(v) ==
  LET d == DOMAIN v IN
  IF d = {"num"} THEN ToString(v.num)
  ELSE IF d = {"str"} THEN Quote(v.str)
  ELSE IF d = {"to"} THEN "{\"to\":" \o JSONArray(v.to) \o "}"
  ELSE IF d = {"from"} THEN "{\"from\":" \o Quote(v.from) \o "}"
  ELSE "{\"from\":" \o Quote(v.from) \o ",\"to\":" \o JSONArray(v.to) \o "}"

\* JSON.parse(text)
JSONParse(text) == CHOOSE v \in JsonValues : JSONStringify(v) = text

(***************************************************************************)
(* store.ts: the indexers of 'store.test indexers' and the functions       *)
(* passed to modify.                                                       *)
(***************************************************************************)
storeId == <<"app", "store">>
fromIndexId == <<"app", "from.v1">>
toIndexId == <<"app", "to.v1">>
IndexIds == {fromIndexId, toIndexId}

fromIndex(value) ==
  <<[indexKey |-> value.from, inlineValue |-> Some([to |-> value.to])]>>
toIndex(value) ==
  [i \in DOMAIN value.to |->
     [indexKey |-> value.to[i], inlineValue |-> Some([from |-> value.from])]]
Indexer(id, value) == IF id = fromIndexId THEN fromIndex(value) ELSE toIndex(value)

\* fn of modify(key, fn): addBob appends a recipient (creating the message
\* when there is none), drop deletes, toCharlie overwrites.
ModifyFns == {"addBob", "drop", "toCharlie"}
Apply(fn, old) ==
  IF fn = "drop" THEN None
  ELSE IF fn = "toCharlie" THEN Some(mCharlie)
  ELSE IF old = None THEN Some(mEmpty)
  ELSE IF old[1] = mEmpty THEN Some(mOne)
  ELSE IF old[1] = mOne THEN Some(mDup)
  ELSE old

(***************************************************************************)
(* store.ts: InMemoryStore.  data maps a key to [value, indexKeys]; index  *)
(* maps an index id to its data, which maps an index key to the rows of    *)
(* each primary key.                                                       *)
(***************************************************************************)
MemState(data, index, outcome) == [data |-> data, index |-> index, outcome |-> outcome]

\* InMemoryStore.defineIndex
InMemoryStore_defineIndex(index, cp, id) ==
  IF assertStartupTime(cp) # Ok
  THEN [index |-> index, outcome |-> assertStartupTime(cp)]
  ELSE IF MapHas(index, IdValue(id))
  THEN [index |-> index, outcome |-> "Error: Index already defined"]
  ELSE [index |-> MapSet(index, IdValue(id), [indexer |-> id, data |-> <<>>]),
        outcome |-> Ok]

\* del, lines 665-673: the inner loop over the index keys recorded for one
\* index.  `objects` is undefined once the bucket has been deleted.
RECURSIVE DelIndexKeys(_, _, _)
DelIndexKeys(idata, key, indexKeys) ==
  IF indexKeys = <<>> THEN [data |-> idata, outcome |-> Ok]
  ELSE IF ~MapHas(idata, Head(indexKeys))
  THEN [data |-> idata, outcome |-> "TypeError: Cannot read properties of undefined"]
  ELSE IF ~MapHas(MapGet(idata, Head(indexKeys)), key)
  THEN [data |-> idata, outcome |-> "AssertionError: objects.has(key)"]
  ELSE With(MapDelete(MapGet(idata, Head(indexKeys)), key), LAMBDA rest :
         DelIndexKeys(IF rest = <<>> THEN MapDelete(idata, Head(indexKeys))
                      ELSE MapSet(idata, Head(indexKeys), rest),
                      key, Tail(indexKeys)))

\* del, lines 662-674: the outer loop over the indexes the object is in.
RECURSIVE DelIndexes(_, _, _)
DelIndexes(index, key, entries) ==
  IF entries = <<>> THEN [index |-> index, outcome |-> Ok]
  ELSE With(DelIndexKeys(MapGet(index, Head(entries)[1]).data, key, Head(entries)[2]),
            LAMBDA r :
         With(MapSet(index, Head(entries)[1],
                     [MapGet(index, Head(entries)[1]) EXCEPT !.data = r.data]),
              LAMBDA index2 :
           IF r.outcome # Ok THEN [index |-> index2, outcome |-> r.outcome]
           ELSE DelIndexes(index2, key, Tail(entries))))

\* InMemoryStore.del
InMemoryStore_del(data, index, key) ==
  IF ~MapHas(data, key) THEN MemState(data, index, Ok)
  ELSE With(DelIndexes(index, key, MapGet(data, key).indexKeys), LAMBDA r :
         MemState(IF r.outcome # Ok THEN data ELSE MapDelete(data, key),
                  r.index, r.outcome))

\* set, lines 629-644: the rows of one index for the entries of the indexer.
RECURSIVE InsertRows(_, _, _, _)
InsertRows(idata, key, value, indexEntries) ==
  IF indexEntries = <<>> THEN idata
  ELSE With(IF MapHas(idata, Head(indexEntries).indexKey)
            THEN MapGet(idata, Head(indexEntries).indexKey) ELSE <<>>, LAMBDA indexData :
         InsertRows(
           MapSet(idata, Head(indexEntries).indexKey,
                  MapSet(indexData, key,
                         Append(IF MapHas(indexData, key) THEN MapGet(indexData, key)
                                ELSE <<>>,
                                [indexKey |-> Head(indexEntries).indexKey,
                                 value |-> value, key |-> key,
                                 inlineValue |-> Head(indexEntries).inlineValue]))),
           key, value, Tail(indexEntries)))

\* set, lines 626-648: every index in turn; the result carries the indexKeys
\* map recorded with the value.
RECURSIVE InsertIndexes(_, _, _, _, _)
InsertIndexes(index, indexKeys, ids, key, value) ==
  IF ids = <<>> THEN [index |-> index, indexKeys |-> indexKeys]
  ELSE With(Indexer(MapGet(index, Head(ids)).indexer, value), LAMBDA indexEntries :
         InsertIndexes(
           MapSet(index, Head(ids),
                  [MapGet(index, Head(ids)) EXCEPT
                     !.data = InsertRows(@, key, value, indexEntries)]),
           MapSet(indexKeys, Head(ids),
                  [i \in DOMAIN indexEntries |-> indexEntries[i].indexKey]),
           Tail(ids), key, value))

\* InMemoryStore.set
InMemoryStore_set(data, index, key, value) ==
  With(JSONParse(JSONStringify(value)), LAMBDA json :
    With(InMemoryStore_del(data, index, key), LAMBDA d :
      IF d.outcome # Ok THEN d
      ELSE With(InsertIndexes(d.index, <<>>, MapKeys(d.index), key, json), LAMBDA r :
             MemState(MapSet(d.data, key, [value |-> json, indexKeys |-> r.indexKeys]),
                      r.index, Ok))))

\* InMemoryStore.get
InMemoryStore_get(data, key) ==
  IF MapHas(data, key) THEN Some(MapGet(data, key).value) ELSE None

\* InMemoryStore.has
InMemoryStore_has(data, key) == MapHas(data, key)

\* InMemoryStore.modify: the state it leaves and the value it returns.
InMemoryStore_modify(data, index, key, fn) ==
  With(Apply(fn, InMemoryStore_get(data, key)), LAMBDA newValue :
    With(IF newValue = None THEN InMemoryStore_del(data, index, key)
         ELSE InMemoryStore_set(data, index, key, newValue[1]), LAMBDA r :
      [data |-> r.data, index |-> r.index, outcome |-> r.outcome, ret |-> newValue]))

\* The get of the object defineIndex returns, lines 599-601: opts is not read.
InMemoryStore_index_get(index, id, indexKey, opts) ==
  With(MapGet(index, IdValue(id)).data, LAMBDA idata :
    IF MapHas(idata, indexKey) THEN Flat(MapValues(MapGet(idata, indexKey))) ELSE <<>>)

\* InMemoryStore.allKeys
InMemoryStore_allKeys(data) == MapKeys(data)

(***************************************************************************)
(* store.ts: PostgresStore.  primary is the set of rows [key, value] of    *)
(* the primary table, value being the JSON text sent to the jsonb column;  *)
(* index maps the table name of an index to its rows [index_key, key,      *)
(* inline_value] in insertion order (the SERIAL id column only orders      *)
(* them).  The pool is connected and seedDatabase has created the tables.  *)
(***************************************************************************)
PgState(primary, index, outcome) ==
  [primary |-> primary, index |-> index, outcome |-> outcome]

\* PostgresStore.defineIndex; the table is the one seedDatabase creates with
\* CREATE TABLE IF NOT EXISTS.
PostgresStore_defineIndex(ixs, index, cp, id) ==
  IF assertStartupTime(cp) # Ok
  THEN [indexes |-> ixs, index |-> index, outcome |-> assertStartupTime(cp)]
  ELSE [indexes |-> Append(ixs, id),
        index |-> IF MapHas(index, idToSafeName(id)) THEN index
                  ELSE MapSet(index, idToSafeName(id), <<>>),
        outcome |-> Ok]

PgHasRow(primary, key) == \E r \in primary : r.key = key
PgRow(primary, key) == CHOOSE r \in primary : r.key = key

\* The upsert without its ON CONFLICT branch taking effect.
PgUpsert_KeepsOld(primary, key, text) ==
  IF \E r \in primary : r.key = key THEN primary
  ELSE primary \cup {[key |-> key, value |-> text]}

\* INSERT INTO primary ... ON CONFLICT (key) DO UPDATE SET value = $2
PgUpsert(primary, key, text) ==
  {r \in primary : r.key # key} \cup {[key |-> key, value |-> text]}

\* DELETE FROM table WHERE key = $1
PgDeleteRows(rows, key) == SelectSeq(rows, LAMBDA r : r.key # key)

\* INSERT INTO table (index_key, key, inline_value) for each indexer entry;
\* JSON.stringify(undefined) is undefined, which is sent as NULL.
PgInsertRows(rows, key, indexEntries) ==
  rows \o [i \in DOMAIN indexEntries |->
             [index_key |-> indexEntries[i].indexKey, key |-> key,
              inline_value |-> IF indexEntries[i].inlineValue = None THEN None
                               ELSE Some(JSONStringify(indexEntries[i].inlineValue[1]))]]

\* The index queries of set and modify, one index after the other.
RECURSIVE PgReindex(_, _, _, _)
PgReindex(index, ixs, key, value) ==
  IF ixs = <<>> THEN index
  ELSE PgReindex(MapSet(index, idToSafeName(Head(ixs)),
                        PgInsertRows(PgDeleteRows(MapGet(index, idToSafeName(Head(ixs))),
                                                  key),
                                     key, Indexer(Head(ixs), value))),
                 Tail(ixs), key, value)

\* The index queries of del and of modify's delete branch.
RECURSIVE PgUnindex(_, _, _)
PgUnindex(index, ixs, key) ==
  IF ixs = <<>> THEN index
  ELSE PgUnindex(MapSet(index, idToSafeName(Head(ixs)),
                        PgDeleteRows(MapGet(index, idToSafeName(Head(ixs))), key)),
                 Tail(ixs), key)

\* key TEXT REFERENCES primary(key): some index row still refers to the key.
PgReferenced(index, key) ==
  \E i \in DOMAIN index : \E j \in DOMAIN index[i][2] : index[i][2][j].key = key

\* PostgresStore.set: one transaction.
PostgresStore_set(primary, index, ixs, key, value) ==
  PgState(PgUpsert(primary, key, JSONStringify(value)),
          PgReindex(index, ixs, key, value), Ok)

\* PostgresStore.del: one transaction, index rows first.
PostgresStore_del(primary, index, ixs, key) ==
  PgState({r \in primary : r.key # key}, PgUnindex(index, ixs, key), Ok)

\* PostgresStore.get
PostgresStore_get(primary, key) ==
  IF PgHasRow(primary, key) THEN Some(JSONParse(PgRow(primary, key).value)) ELSE None

\* PostgresStore.has
PostgresStore_has(primary, key) == PgHasRow(primary, key)

\* modify, lines 326-370: the batch run after fn.  The delete branch deletes
\* the primary row first; a row of an index table that refers to it makes the
\* statement fail and the transaction roll back.
PostgresStore_modify_batch(primary, index, ixs, key, newValue) ==
  IF newValue = None
  THEN IF PgHasRow(primary, key) /\ PgReferenced(index, key)
       THEN PgState(primary, index, "error: violates foreign key constraint")
       ELSE PgState({r \in primary : r.key # key}, PgUnindex(index, ixs, key), Ok)
  ELSE PostgresStore_set(primary, index, ixs, key, newValue[1])

\* opts?.x ?? default
OptOr(opt, default) == IF opt = Undefined THEN default ELSE opt = "true"
NoOpts == [retrieveValues |-> Undefined, retrieveInlineValues |-> Undefined]

\* index_get, lines 548-559: the entry made from one row.
PgIndexEntry(primary, row, retrieveValues, retrieveInlineValues) ==
  With(IF retrieveValues THEN [value |-> JSONParse(PgRow(primary, row.key).value)]
       ELSE <<>>, LAMBDA v :
    With(IF ~retrieveInlineValues THEN <<>>
         ELSE [inlineValue |-> IF row.inline_value = None THEN None
                               ELSE Some(JSONParse(row.inline_value[1]))], LAMBDA iv :
      IF retrieveValues /\ retrieveInlineValues
      THEN [key |-> row.key, value |-> v.value, inlineValue |-> iv.inlineValue]
      ELSE IF retrieveValues THEN [key |-> row.key, value |-> v.value]
      ELSE IF retrieveInlineValues THEN [key |-> row.key, inlineValue |-> iv.inlineValue]
      ELSE [key |-> row.key]))

\* PostgresStore.index_get
PostgresStore_index_get(primary, index, id, indexKey, opts) ==
  With(SelectSeq(MapGet(index, idToSafeName(id)), LAMBDA r : r.index_key = indexKey),
       LAMBDA rows :
    [i \in DOMAIN rows |->
       PgIndexEntry(primary, rows[i], OptOr(opts.retrieveValues, FALSE),
                    OptOr(opts.retrieveInlineValues, TRUE))])

(***************************************************************************)
(* store.ts: Store, the wrapper over the backing store.  Every runtime     *)
(* method starts with assertRuntime().                                     *)
(***************************************************************************)
Clients == {"c1", "c2"}

personaState ==
  <<envPERSONA, registeredPersonas, currentPersona, invoked, pending, ipState, logged>>

InMemory == backingStore = "InMemoryStore"

StoreState(data, index, primary, pindex, outcome) ==
  [data |-> data, index |-> index, primary |-> primary, pindex |-> pindex,
   outcome |-> outcome]
FromMem(r) == StoreState(r.data, r.index, pgPrimary, pgIndex, r.outcome)
FromPg(r) == StoreState(memData, memIndex, r.primary, r.index, r.outcome)
Untouched(outcome) == StoreState(memData, memIndex, pgPrimary, pgIndex, outcome)

SetStore(r) ==
  /\ memData' = r.data
  /\ memIndex' = r.index
  /\ pgPrimary' = r.primary
  /\ pgIndex' = r.pindex

\* Store.get, Store.has and Store.allKeys on the current state.
Store_get(key) ==
  IF InMemory THEN InMemoryStore_get(memData, key) ELSE PostgresStore_get(pgPrimary, key)
Store_has(key) ==
  IF InMemory THEN InMemoryStore_has(memData, key) ELSE PostgresStore_has(pgPrimary, key)

\* Store.set and Store.del; value = None is set(key, undefined).
(***************************************************************************)
(* PostgresStore: the statements of a transaction, one by one.             *)
(***************************************************************************)
Query(op, table, key, arg) == [op |-> op, table |-> table, key |-> key, arg |-> arg]

\* set, lines 249-255
UpsertQuery(key, value) == Query("upsert", "primary", key, <<JSONStringify(value)>>)

\* set, lines 259-262; del, lines 289-292
DeleteIndexQuery(id, key) == Query("deleteIndex", idToSafeName(id), key, <<>>)

\* del, lines 296-299
DeletePrimaryQuery(key) == Query("deletePrimary", "primary", key, <<>>)

\* set, lines 265-271: one INSERT for each entry the indexer gives.
InsertIndexQueries(id, key, indexEntries) ==
  [i \in DOMAIN indexEntries |->
     Query("insertIndex", idToSafeName(id), key, PgInsertRows(<<>>, key, <<indexEntries[i]>>))]

RECURSIVE IndexQueries(_, _, _)
IndexQueries(ixs, key, value) ==
  IF ixs = <<>> THEN <<>>
  ELSE <<DeleteIndexQuery(Head(ixs), key)>>
         \o InsertIndexQueries(Head(ixs), key, Indexer(Head(ixs), value))
         \o IndexQueries(Tail(ixs), key, value)

\* The queries of set, of del and of modify, in the order they are pushed.
SetQueries(ixs, key, value) == <<UpsertQuery(key, value)>> \o IndexQueries(ixs, key, value)

DelQueries(ixs, key) ==
  [i \in DOMAIN ixs |-> DeleteIndexQuery(ixs[i], key)] \o <<DeletePrimaryQuery(key)>>

ModifyQueries(ixs, key, newValue) ==
  IF newValue = None
  THEN <<DeletePrimaryQuery(key)>> \o [i \in DOMAIN ixs |-> DeleteIndexQuery(ixs[i], key)]
  ELSE SetQueries(ixs, key, newValue[1])

\* One statement run by the database.
ExecQuery(s, q) ==
  IF q.op = "upsert" THEN PgState(PgUpsert(s.primary, q.key, q.arg[1]), s.index, Ok)
  ELSE IF q.op = "deleteIndex"
  THEN PgState(s.primary,
               MapSet(s.index, q.table, PgDeleteRows(MapGet(s.index, q.table), q.key)), Ok)
  ELSE IF q.op = "insertIndex"
  THEN IF ~PgHasRow(s.primary, q.key)
       THEN PgState(s.primary, s.index, "error: violates foreign key constraint")
       ELSE PgState(s.primary,
                    MapSet(s.index, q.table, MapGet(s.index, q.table) \o q.arg), Ok)
  ELSE IF PgHasRow(s.primary, q.key) /\ PgReferenced(s.index, q.key)
  THEN PgState(s.primary, s.index, "error: violates foreign key constraint")
  ELSE PgState({r \in s.primary : r.key # q.key}, s.index, Ok)

\* t.batch(queries.map(q => t.none(...))): the statements in order, up to the
\* first that fails.  Statement number failAt fails for a reason outside the
\* program (the connection is lost); failAt = 0 is no such fault.
RECURSIVE Batch(_, _, _, _)
Batch(s, queries, n, failAt) ==
  IF queries = <<>> THEN s
  ELSE IF n = failAt THEN PgState(s.primary, s.index, "error: connection terminated")
  ELSE With(ExecQuery(s, Head(queries)), LAMBDA r :
         IF r.outcome # Ok THEN r ELSE Batch(r, Tail(queries), n + 1, failAt))

\* The statements run on the pool, outside any transaction.
pool_tx_NoRollback(primary, index, queries, failAt) ==
  Batch(PgState(primary, index, Ok), queries, 1, failAt)

\* pool.tx(t => t.batch(...)): COMMIT when the batch resolves, ROLLBACK and
\* the batch's error when it rejects.
pool_tx(primary, index, queries, failAt) ==
  With(Batch(PgState(primary, index, Ok), queries, 1, failAt), LAMBDA r :
    IF r.outcome # Ok THEN PgState(primary, index, r.outcome) ELSE r)

Store_set(key, value) ==
  IF assertRuntime(registeredPersonas, currentPersona) # Ok
  THEN Untouched(assertRuntime(registeredPersonas, currentPersona))
  ELSE IF InMemory
  THEN FromMem(IF value = None THEN InMemoryStore_del(memData, memIndex, key)
               ELSE InMemoryStore_set(memData, memIndex, key, value[1]))
  ELSE FromPg(IF value = None THEN PostgresStore_del(pgPrimary, pgIndex, indexes, key)
              ELSE PostgresStore_set(pgPrimary, pgIndex, indexes, key, value[1]))

\* Store.Index.get
Store_index_get(id, indexKey, opts) ==
  IF InMemory THEN InMemoryStore_index_get(memIndex, id, indexKey, opts)
  ELSE PostgresStore_index_get(pgPrimary, pgIndex, id, indexKey, opts)

\* A modify transaction of a client.  v0, peers and clean record what the
\* atomicity of modify is judged by: the value stored when the call was made,
\* the clients whose modify of the same key overlapped this one, and whether
\* nothing else wrote the key since.
IdleTx ==
  [pc |-> "idle", key |-> "", fn |-> "", existing |-> None, locked |-> FALSE,
   v0 |-> None, peers |-> {}, clean |-> TRUE, outcome |-> Ok]

\* SELECT ... FOR UPDATE holds the row of `key` for another open transaction.
Locked(key, c) ==
  \E d \in Clients \ {c} : tx[d].pc = "selected" /\ tx[d].key = key /\ tx[d].locked

\* A write of `key` outside the modify calls on record.
Disturb(key) ==
  [d \in Clients |->
     IF tx[d].pc # "idle" /\ tx[d].key = key THEN [tx[d] EXCEPT !.clean = FALSE]
     ELSE tx[d]]

DefinedIndexIds ==
  IF InMemory THEN {id \in IndexIds : MapHas(memIndex, IdValue(id))}
  ELSE {id \in IndexIds : MapHas(pgIndex, idToSafeName(id))}

(***************************************************************************)
(* Actions: the store.                                                     *)
(***************************************************************************)
\* At most this many indexes are declared on the store.
MaxIndexes == 2

\* ORDER BY key ASC over the keys of the model.
KeyOrder == <<"key1", "key2">>

Bool(b) == IF b THEN "true" ELSE "false"

RuntimeErr == assertRuntime(registeredPersonas, currentPersona)

\* An allKeys enumeration.  In memory `pos` is where the iterator of
\* this.data.keys() stands (the entries it has passed); on postgres lastKey is
\* the last key of the last batch.  atStart, deleted and mutated record what
\* the enumeration is judged by: the keys present when it started, the keys
\* deleted and the number of set, del and modify calls that ran while it was
\* open.
IdleCursor ==
  [pc |-> "idle", batchSize |-> 0, lastKey |-> None, pos |-> 0, yielded |-> <<>>,
   atStart |-> {}, deleted |-> {}, writes |-> 0]

KeysPresent == {k \in Keys : Store_has(k)}

KeyRank(k) == CHOOSE i \in DOMAIN KeyOrder : KeyOrder[i] = k

\* The batch size of allKeys when opts gives none.
DefaultBatchSize == 100

\* opts?.batchSize || 100
BatchSizeOf(opt) == IF opt = None \/ opt = Some(0) THEN DefaultBatchSize ELSE opt[1]

\* The batch query with its LIMIT taken before its WHERE.
PgKeysAfter_LimitFirst(primary, lastKey, batchSize) ==
  With(SelectSeq(KeyOrder, LAMBDA k : PgHasRow(primary, k)), LAMBDA rows :
    SelectSeq(SubSeq(rows, 1, IF batchSize < Len(rows) THEN batchSize ELSE Len(rows)),
              LAMBDA k : lastKey = None \/ KeyRank(k) > KeyRank(lastKey[1])))

\* SELECT key FROM primary [WHERE key > $1] ORDER BY key ASC LIMIT batchSize
PgKeysAfter(primary, lastKey, batchSize) ==
  With(SelectSeq(KeyOrder, LAMBDA k :
         PgHasRow(primary, k) /\ (lastKey = None \/ KeyRank(k) > KeyRank(lastKey[1]))),
       LAMBDA rows :
    SubSeq(rows, 1, IF batchSize < Len(rows) THEN batchSize ELSE Len(rows)))

\* CursorAfter for an iterator that counts the keys it has given and does not
\* follow the entries deleted behind it.
CursorAfter_Counting(key, dataAfter, primaryAfter, outcome) ==
  IF cursor.pc # "open" THEN cursor
  ELSE [cursor EXCEPT
          !.writes = @ + 1,
          !.deleted = IF /\ Store_has(key)
                         /\ ~(IF InMemory THEN MapHas(dataAfter, key)
                              ELSE PgHasRow(primaryAfter, key))
                      THEN @ \cup {key} ELSE @]

\* What a set, del or modify of `key` that ran does to an open enumeration:
\* in memory the entry of an existing key is deleted from this.data (and,
\* for a set, a new one is added at the end), so an iterator that had passed
\* the entry has one entry less behind it.
CursorAfter(key, dataAfter, primaryAfter, outcome) ==
  IF cursor.pc # "open" THEN cursor
  ELSE [cursor EXCEPT
          !.writes = @ + 1,
          !.deleted = IF /\ Store_has(key)
                         /\ ~(IF InMemory THEN MapHas(dataAfter, key)
                              ELSE PgHasRow(primaryAfter, key))
                      THEN @ \cup {key} ELSE @,
          !.pos = IF /\ InMemory
                     /\ outcome = Ok
                     /\ \E i \in 1..@ : memData[i][1] = key
                  THEN @ - 1 ELSE @]

\* new store.Index(id, indexer)
DefineIndex(id) ==
  /\ backingStore # Undefined
  /\ (~InMemory /\ assertStartupTime(currentPersona) = Ok) => Len(indexes) < MaxIndexes
  /\ With(IF InMemory
          THEN With(InMemoryStore_defineIndex(memIndex, currentPersona, id), LAMBDA m :
                 [mem |-> m.index, indexes |-> indexes, pg |-> pgIndex,
                  outcome |-> m.outcome])
          ELSE With(PostgresStore_defineIndex(indexes, pgIndex, currentPersona, id),
                    LAMBDA p :
                 [mem |-> memIndex, indexes |-> p.indexes, pg |-> p.index,
                  outcome |-> p.outcome]), LAMBDA r :
       /\ memIndex' = r.mem
       /\ indexes' = r.indexes
       /\ pgIndex' = r.pg
       /\ lastCall' = Call("new store.Index", r.outcome))
  /\ UNCHANGED <<personaState, declVars, buildVars, runtimeVars, declCount>>
  /\ UNCHANGED <<backingStore, memData, pgPrimary, tx, cursor>>

\* store.get(key)
StoreGet(key) ==
  /\ backingStore # Undefined
  /\ lastCall' = CallRet("get", <<key>>, RuntimeErr,
                         IF RuntimeErr = Ok THEN Store_get(key) ELSE None)
  /\ UNCHANGED <<personaState, declVars, storeVars, buildVars, runtimeVars, declCount>>

\* store.has(key)
StoreHas(key) ==
  /\ backingStore # Undefined
  /\ lastCall' = CallRet("has", <<key>>, RuntimeErr,
                         IF RuntimeErr = Ok THEN <<Bool(Store_has(key))>> ELSE None)
  /\ UNCHANGED <<personaState, declVars, storeVars, buildVars, runtimeVars, declCount>>

\* store.allKeys(), iterated to its end in one go.
StoreAllKeys ==
  /\ backingStore # Undefined
  /\ lastCall' = CallRet("allKeys", <<>>, RuntimeErr,
                         IF RuntimeErr # Ok THEN <<>>
                         ELSE IF InMemory THEN InMemoryStore_allKeys(memData)
                         ELSE SelectSeq(KeyOrder, LAMBDA k : PgHasRow(pgPrimary, k)))
  /\ UNCHANGED <<personaState, declVars, storeVars, buildVars, runtimeVars, declCount>>

\* store.allKeys(opts) is called: the enumeration starts.
AllKeysOpen(opt) ==
  /\ backingStore # Undefined
  /\ cursor.pc \in {"idle", "done"}
  /\ cursor' = IF RuntimeErr # Ok THEN cursor
               ELSE [IdleCursor EXCEPT !.pc = "open", !.batchSize = BatchSizeOf(opt),
                                       !.atStart = KeysPresent]
  /\ lastCall' = CallRet("allKeys.start", <<opt>>, RuntimeErr, <<>>)
  /\ UNCHANGED <<personaState, declVars, buildVars, runtimeVars, declCount>>
  /\ UNCHANGED <<backingStore, indexes, memData, memIndex, pgPrimary, pgIndex, tx>>

\* The consumer asks the enumeration for more.  In memory the iterator of
\* this.data.keys() gives its next key; on postgres the next batch is queried
\* and yielded.  The enumeration finishes when there is nothing more.
AllKeysNext ==
  /\ cursor.pc = "open"
  /\ With(IF InMemory
          THEN IF cursor.pos < Len(memData) THEN <<memData[cursor.pos + 1][1]>> ELSE <<>>
          ELSE PgKeysAfter(pgPrimary, cursor.lastKey, cursor.batchSize), LAMBDA keys :
       /\ cursor' = IF keys = <<>> THEN [cursor EXCEPT !.pc = "done"]
                    ELSE [cursor EXCEPT !.yielded = @ \o keys,
                                        !.pos = @ + 1,
                                        !.lastKey = Some(keys[Len(keys)])]
       /\ lastCall' = CallRet("allKeys.next", <<>>, Ok, keys))
  /\ UNCHANGED <<personaState, declVars, buildVars, runtimeVars, declCount>>
  /\ UNCHANGED <<backingStore, indexes, memData, memIndex, pgPrimary, pgIndex, tx>>

\* store.set(key, value); value = None is set(key, undefined).  On postgres
\* the statement waits for a row lock held by an open modify.
StoreSet(key, value) ==
  /\ backingStore # Undefined
  /\ (~InMemory /\ RuntimeErr = Ok) => ~Locked(key, "caller")
  /\ With(Store_set(key, value), LAMBDA r :
       /\ SetStore(r)
       /\ cursor' = IF RuntimeErr = Ok
                    THEN CursorAfter(key, r.data, r.primary, r.outcome) ELSE cursor
       /\ lastCall' = CallRet("set", <<key, value>>, r.outcome, <<>>))
  /\ tx' = IF RuntimeErr = Ok THEN Disturb(key) ELSE tx
  /\ UNCHANGED <<personaState, declVars, buildVars, runtimeVars, declCount>>
  /\ UNCHANGED <<backingStore, indexes>>

\* store.del(key)
StoreDel(key) ==
  /\ backingStore # Undefined
  /\ (~InMemory /\ RuntimeErr = Ok) => ~Locked(key, "caller")
  /\ With(Store_set(key, None), LAMBDA r :
       /\ SetStore(r)
       /\ cursor' = IF RuntimeErr = Ok
                    THEN CursorAfter(key, r.data, r.primary, r.outcome) ELSE cursor
       /\ lastCall' = CallRet("del", <<key>>, r.outcome, <<>>))
  /\ tx' = IF RuntimeErr = Ok THEN Disturb(key) ELSE tx
  /\ UNCHANGED <<personaState, declVars, buildVars, runtimeVars, declCount>>
  /\ UNCHANGED <<backingStore, indexes>>

\* index.get(indexKey, opts); the in-memory index does not call assertRuntime.
IndexGet(id, indexKey, opts) ==
  /\ backingStore # Undefined
  /\ id \in DefinedIndexIds
  /\ With(IF InMemory THEN Ok ELSE RuntimeErr, LAMBDA err :
       lastCall' = CallRet("index.get", <<id, indexKey, opts>>, err,
                           IF err = Ok THEN Store_index_get(id, indexKey, opts)
                           ELSE <<>>))
  /\ UNCHANGED <<personaState, declVars, storeVars, buildVars, runtimeVars, declCount>>

\* The transactions after client c has called modify(key, fn) on postgres:
\* c waits for its SELECT ... FOR UPDATE; the open transactions on the same
\* key become its peers.
ModifyCallTx(c, key, fn) ==
  LET open == {d \in Clients \ {c} :
                 tx[d].pc \in {"waiting", "selected"} /\ tx[d].key = key} IN
  [d \in Clients |->
     IF d = c
     THEN [IdleTx EXCEPT !.pc = "waiting", !.key = key, !.fn = fn,
                         !.v0 = Store_get(key), !.peers = open]
     ELSE IF d \in open
     THEN [tx[d] EXCEPT !.peers = @ \cup {c}, !.clean = @ /\ c \notin tx[d].peers]
     ELSE IF c \in tx[d].peers THEN [tx[d] EXCEPT !.clean = FALSE]
     ELSE tx[d]]

\* The transactions after client c has run modify(key, fn) in memory: the call
\* overlapped no other, so nothing of it is kept.
ModifyDoneTx(c, key, fn, outcome) ==
  [d \in Clients |->
     IF d = c THEN IdleTx
     ELSE IF c \in tx[d].peers THEN [tx[d] EXCEPT !.clean = FALSE]
     ELSE tx[d]]

\* store.modify(key, fn) is called by client c.  In memory the whole call runs
\* at once; on postgres the call opens a transaction.
StoreModify(c, key, fn) ==
  /\ backingStore # Undefined
  /\ tx[c].pc \in {"idle", "done"}
  /\ IF RuntimeErr # Ok
     THEN /\ lastCall' = CallRet("modify", <<key, fn>>, RuntimeErr, None)
          /\ UNCHANGED <<memData, memIndex, tx, cursor>>
     ELSE IF InMemory
     THEN With(InMemoryStore_modify(memData, memIndex, key, fn), LAMBDA m :
            /\ memData' = m.data
            /\ memIndex' = m.index
            /\ cursor' = CursorAfter(key, m.data, pgPrimary, m.outcome)
            /\ tx' = ModifyDoneTx(c, key, fn, m.outcome)
            /\ lastCall' = CallRet("modify", <<key, fn>>, m.outcome,
                                   IF m.outcome = Ok THEN m.ret ELSE None))
     ELSE /\ tx' = ModifyCallTx(c, key, fn)
          /\ UNCHANGED <<memData, memIndex, lastCall, cursor>>
  /\ UNCHANGED <<personaState, declVars, buildVars, runtimeVars, declCount>>
  /\ UNCHANGED <<backingStore, indexes, pgPrimary, pgIndex>>

\* modify, lines 317-321: SELECT value ... FOR UPDATE returns; it locks the
\* row if there is one, and waits while another transaction holds it.
StoreModifySelect(c) ==
  /\ tx[c].pc = "waiting"
  /\ ~Locked(tx[c].key, c)
  /\ tx' = [tx EXCEPT ![c].pc = "selected",
                      ![c].existing = PostgresStore_get(pgPrimary, tx[c].key),
                      ![c].locked = PgHasRow(pgPrimary, tx[c].key)]
  /\ UNCHANGED <<personaVars, declVars, buildVars, runtimeVars, declCount>>
  /\ UNCHANGED <<backingStore, indexes, memData, memIndex, pgPrimary, pgIndex, cursor>>

\* modify, lines 324-373: fn is applied to the value read, the batch runs and
\* the transaction commits (or rolls back), and modify returns.
StoreModifyCommit(c) ==
  /\ tx[c].pc = "selected"
  /\ ~Locked(tx[c].key, c)
  /\ With(Apply(tx[c].fn, tx[c].existing), LAMBDA newValue :
       With(PostgresStore_modify_batch(pgPrimary, pgIndex, indexes, tx[c].key, newValue),
            LAMBDA r :
         /\ pgPrimary' = r.primary
         /\ pgIndex' = r.index
         /\ cursor' = CursorAfter(tx[c].key, memData, r.primary, r.outcome)
         \* a call that overlapped no other leaves nothing to judge
         /\ tx' = [tx EXCEPT ![c] = IF tx[c].peers = {} THEN IdleTx
                                    ELSE [@ EXCEPT !.pc = "done", !.locked = FALSE,
                                                   !.outcome = r.outcome]]
         /\ lastCall' = CallRet("modify", <<tx[c].key, tx[c].fn>>, r.outcome,
                                IF r.outcome = Ok THEN newValue ELSE None)))
  /\ UNCHANGED <<personaState, declVars, buildVars, runtimeVars, declCount>>
  /\ UNCHANGED <<backingStore, indexes, memData, memIndex>>

(***************************************************************************)
(* build-time-store.ts: BuildTimeStore.  The build state b holds the files *)
(* of the build folder (disk: file -> the JSON text of each key, if the    *)
(* file exists), the contents cached by each store of this process, the    *)
(* values Secret.get() has returned in the build persona and the valueLazy *)
(* calls made.                                                             *)
(***************************************************************************)
BuildState ==
  [disk |-> diskFiles, contents |-> storeContents, values |-> buildValues,
   lazy |-> lazyCalls]

BRet(b, outcome, ret) == [b |-> b, outcome |-> outcome, ret |-> ret]

\* JSON.stringify(this.contents, null, 4) and JSON.parse of the file.
StringifyFile(contents) ==
  [i \in DOMAIN contents |-> <<contents[i][1], JSONStringify(contents[i][2])>>]
ParseFile(text) == [i \in DOMAIN text |-> <<text[i][1], JSONParse(text[i][2])>>]

\* cacheContents, were it to start from an empty object whatever the file holds.
cacheContents_IgnoresFile(b, file) ==
  IF b.contents[file] # None THEN b ELSE [b EXCEPT !.contents[file] = Some(<<>>)]

\* BuildTimeStore.cacheContents
cacheContents(b, file) ==
  IF b.contents[file] # None THEN b
  ELSE [b EXCEPT !.contents[file] =
          Some(IF b.disk[file] # None THEN ParseFile(b.disk[file][1]) ELSE <<>>)]

\* BuildTimeStore.flush
flush(b, file) == [b EXCEPT !.disk[file] = Some(StringifyFile(b.contents[file][1]))]

\* BuildTimeStore.has
BuildTimeStore_has(b, cp, file, key) ==
  IF assertBuildTime(cp) # Ok THEN BRet(b, assertBuildTime(cp), FALSE)
  ELSE With(cacheContents(b, file), LAMBDA c :
         BRet(c, Ok, MapHas(c.contents[file][1], key)))

\* BuildTimeStore.get; ret = None is `undefined`.
BuildTimeStore_get(b, cp, file, key) ==
  IF assertBuildTime(cp) # Ok THEN BRet(b, assertBuildTime(cp), None)
  ELSE With(cacheContents(b, file), LAMBDA c :
         BRet(c, Ok, IF MapHas(c.contents[file][1], key)
                     THEN Some(MapGet(c.contents[file][1], key)) ELSE None))

\* BuildTimeStore.set
BuildTimeStore_set(b, cp, file, key, value) ==
  With(JSONParse(JSONStringify(value)), LAMBDA json :
    IF assertBuildTime(cp) # Ok THEN BRet(b, assertBuildTime(cp), None)
    ELSE With(cacheContents(b, file), LAMBDA c :
           BRet(flush([c EXCEPT !.contents[file] = Some(MapSet(@[1], key, json))], file),
                Ok, None)))

\* One more call of the valueLazy given to getOrInsert(key, valueLazy).
CountLazy(b, file, key) ==
  [b EXCEPT !.lazy = MapSet(@, <<file, key>>,
                            IF MapHas(@, <<file, key>>) THEN MapGet(@, <<file, key>>) + 1
                            ELSE 1)]

\* BuildTimeStore.getOrInsert; value is what valueLazy() returns when called.
BuildTimeStore_getOrInsert(b, cp, file, key, value) ==
  IF assertBuildTime(cp) # Ok THEN BRet(b, assertBuildTime(cp), None)
  ELSE With(BuildTimeStore_has(b, cp, file, key), LAMBDA h :
         IF h.ret THEN BuildTimeStore_get(h.b, cp, file, key)
         ELSE With(BuildTimeStore_set(CountLazy(h.b, file, key), cp, file, key, value),
                   LAMBDA s : BRet(s.b, s.outcome, Some(value))))

\* How many times crypto.randomBytes has been called.
RECURSIVE SumCalls(_)
SumCalls(lazy) == IF lazy = <<>> THEN 0 ELSE Head(lazy)[2] + SumCalls(Tail(lazy))

(***************************************************************************)
(* port.ts and password.ts: the build-time value of a Port and a Password. *)
(***************************************************************************)
nextPortNumber == IdValue(rootId("nextPortNumber"))

\* The function given to Secret by Port's constructor.
Port_value(b, cp, id) ==
  IF assertBuildTime(cp) # Ok THEN BRet(b, assertBuildTime(cp), None)
  ELSE
    With(BuildTimeStore_has(b, cp, "ports", nextPortNumber), LAMBDA e :
    With(IF e.ret THEN e.b
         ELSE BuildTimeStore_set(e.b, cp, "ports", nextPortNumber,
                                 [num |-> START_OF_PORT_RANGE]).b, LAMBDA b1 :
    With(BuildTimeStore_has(b1, cp, "ports", IdValue(id)), LAMBDA h :
      IF h.ret THEN BuildTimeStore_get(h.b, cp, "ports", IdValue(id))
      ELSE
        With(BuildTimeStore_get(h.b, cp, "ports", nextPortNumber), LAMBDA port :
        With(BuildTimeStore_set(port.b, cp, "ports", nextPortNumber,
                                [num |-> port.ret[1].num + 1]).b, LAMBDA b2 :
          BRet(BuildTimeStore_set(b2, cp, "ports", IdValue(id), port.ret[1]).b,
               Ok, port.ret))))))

\* The BuildTimeValue given to Secret by Password's constructor.
Password_value(b, cp, id) ==
  BuildTimeStore_getOrInsert(b, cp, "passwords", IdValue(id),
                             randomBytes(SumCalls(b.lazy) + 1))

(***************************************************************************)
(* secret.ts: Secret, and docker-compose.ts: the environment of each       *)
(* service in the generated manifest.                                      *)
(***************************************************************************)
\* The value a plain `new Secret(id, value)` of the model is given.
constSecretValue == [str |-> "s3cret"]

\* Remember that Secret.get() returned v for the secret `name` at build time.
RecordValue(b, name, v) ==
  With(IF MapHas(b.values, name) THEN MapGet(b.values, name) ELSE <<>>, LAMBDA old :
    [b EXCEPT !.values = MapSet(@, name, IF v \in Range(old) THEN old ELSE Append(old, v))])

\* BuildTimeValue.get of the value a secret wraps.
SecretBuildValue(b, cp, sec) ==
  IF assertBuildTime(cp) # Ok THEN BRet(b, assertBuildTime(cp), None)
  ELSE IF sec.kind = "port" THEN Port_value(b, cp, sec.id)
  ELSE IF sec.kind = "password" THEN Password_value(b, cp, sec.id)
  ELSE BRet(b, Ok, Some(constSecretValue))

\* Secret.get(): env is process.env.
\* utils.ts: unexpected() throws this error, whoever calls it.
unexpected == "Error: Code path not expected"

\* Secret.get reading process.env under every host.
Secret_get_AnyHost(b, reg, cp, sec, env) ==
  IF assertNotStartup(cp) # Ok THEN BRet(b, assertNotStartup(cp), None)
  ELSE IF MapHas(env, sec.name)
  THEN BRet(b, Ok, Some(JSONParse(MapGet(env, sec.name))))
  ELSE BRet(b, unexpected, None)

\* Secret.get
Secret_get(b, reg, cp, sec, env) ==
  IF assertNotStartup(cp) # Ok THEN BRet(b, assertNotStartup(cp), None)
  ELSE With(PersonaAt(reg, cp).host, LAMBDA host :
         IF host = "build"
         THEN With(SecretBuildValue(b, cp, sec), LAMBDA r :
                IF r.outcome # Ok THEN r
                ELSE BRet(RecordValue(r.b, sec.name, r.ret[1]), Ok, r.ret))
         ELSE IF host \in {"cli", "cli-command", "node"}
         THEN IF MapHas(env, sec.name)
              THEN BRet(b, Ok, Some(JSONParse(MapGet(env, sec.name))))
              ELSE BRet(b, unexpected, None)
         ELSE IF host = "browser"
         THEN BRet(b, "Error: Currently no way to route secrets to a browser environment",
                   None)
         ELSE BRet(b, unexpected, None))

\* `${value}` of a string or a number in a template literal.
TemplateText(v) == IF DOMAIN v = {"num"} THEN ToString(v.num) ELSE v.str

SecretNamed(secs, name) == secs[CHOOSE i \in DOMAIN secs : secs[i].name = name]

\* docker-compose.ts, lines 33-37: the entries of service.environment; each
\* value of the model is a Secret, resolved by BuildTimeValue.get.
RECURSIVE ServiceEnvironment(_, _, _, _, _, _)
ServiceEnvironment(b, reg, cp, secs, entries, environment) ==
  IF entries = <<>> THEN BRet(b, Ok, environment)
  ELSE With(Secret_get(b, reg, cp, SecretNamed(secs, Head(entries).ref), <<>>), LAMBDA r :
         IF r.outcome # Ok THEN BRet(r.b, r.outcome, environment)
         ELSE ServiceEnvironment(r.b, reg, cp, secs, Tail(entries),
                Append(environment, <<Head(entries).key, TemplateText(r.ret[1])>>)))

\* docker-compose.ts, lines 39-41: every secret, bound to JSON.stringify.
RECURSIVE SecretEnvironment(_, _, _, _, _, _)
SecretEnvironment(b, reg, cp, secs, rest, environment) ==
  IF rest = <<>> THEN BRet(b, Ok, environment)
  ELSE With(Secret_get(b, reg, cp, Head(rest), <<>>), LAMBDA r :
         IF r.outcome # Ok THEN BRet(r.b, r.outcome, environment)
         ELSE SecretEnvironment(r.b, reg, cp, secs, Tail(rest),
                Append(environment, <<Head(rest).name, JSONStringify(r.ret[1])>>)))

\* The content of docker-compose.yml: the environment of every service.
RECURSIVE ManifestServices(_, _, _, _, _, _)
ManifestServices(b, reg, cp, secs, svcs, result) ==
  IF svcs = <<>> THEN BRet(b, Ok, result)
  ELSE With(ServiceEnvironment(b, reg, cp, secs, Head(svcs).environment, <<>>), LAMBDA e1 :
         IF e1.outcome # Ok THEN BRet(e1.b, e1.outcome, result)
         ELSE With(SecretEnvironment(e1.b, reg, cp, secs, secs, e1.ret), LAMBDA e2 :
                IF e2.outcome # Ok THEN BRet(e2.b, e2.outcome, result)
                ELSE ManifestServices(e2.b, reg, cp, secs, Tail(svcs),
                                      Append(result, <<Head(svcs).name, e2.ret>>))))

\* cli-command.ts, getDotEnvFileContent: every secret is resolved once more
\* (the text of bin/.env is not kept).
DotEnvSecrets(b, reg, cp, secs) == SecretEnvironment(b, reg, cp, secs, secs, <<>>)

\* The build persona's entry point: the onBuild callbacks in order.  Each one
\* writes a build-time file; the result carries the manifest written, if any.
RECURSIVE RunCallbacks(_, _, _, _, _, _, _)
RunCallbacks(b, reg, cp, secs, svcs, cbs, written) ==
  IF cbs = <<>> THEN BRet(b, Ok, written)
  ELSE With(IF Head(cbs) = <<"build", "docker-compose.yml">>
            THEN With(ManifestServices(b, reg, cp, secs, svcs, <<>>), LAMBDA m :
                   BRet(m.b, m.outcome, IF m.outcome = Ok THEN Some(m.ret) ELSE written))
            ELSE IF Head(cbs) = <<"bin", ".env">>
            THEN With(DotEnvSecrets(b, reg, cp, secs), LAMBDA d :
                   BRet(d.b, d.outcome, written))
            ELSE BRet(b, Ok, written),
            LAMBDA r : IF r.outcome # Ok THEN r
                       ELSE RunCallbacks(r.b, reg, cp, secs, svcs, Tail(cbs), r.ret))

SetBuild(b) ==
  /\ diskFiles' = b.disk
  /\ storeContents' = b.contents
  /\ buildValues' = b.values
  /\ lazyCalls' = b.lazy

(***************************************************************************)
(* Actions: runPersona, Secret.get and getOrInsert, and the start of a new *)
(* process on the same build folder.                                       *)
(***************************************************************************)
RunPersona(idArg) ==
  /\ UNCHANGED runtimeVars
  /\ UNCHANGED <<envPERSONA, registeredPersonas, declCount, processEnv>>
  /\ UNCHANGED <<declVars, storeVars>>
  /\ With(RunPersonaResult(registeredPersonas, currentPersona, invoked, pending,
                           ipState, logged, idArg, envPERSONA), LAMBDA r :
       /\ currentPersona' = r.currentPersona
       /\ invoked' = r.invoked
       /\ pending' = r.pending
       /\ ipState' = r.ipState
       /\ logged' = r.logged
       \* the build persona's entry point runs the onBuild callbacks
       /\ With(IF /\ currentPersona = Undefined
                  /\ r.currentPersona = buildPersona.environmentVariableValue
               THEN RunCallbacks(BuildState, registeredPersonas, r.currentPersona,
                                 secrets, services, callbacks, manifest)
               ELSE BRet(BuildState, r.outcome, manifest), LAMBDA cb :
            /\ SetBuild(cb.b)
            /\ manifest' = cb.ret
            /\ lastCall' = CallRet("runPersona", idArg, cb.outcome, <<>>)))

\* secret.get() for the i-th declared secret.
SecretGet(i) ==
  /\ UNCHANGED runtimeVars
  /\ i \in DOMAIN secrets
  /\ UNCHANGED <<personaState, declVars, storeVars, declCount, manifest, processEnv>>
  /\ With(Secret_get(BuildState, registeredPersonas, currentPersona, secrets[i],
                     processEnv), LAMBDA r :
       /\ SetBuild(r.b)
       /\ lastCall' = CallRet("Secret.get", <<secrets[i].name>>, r.outcome, r.ret))

\* The BuildTimeStore the program declares for itself, and the valueLazy
\* functions it passes to getOrInsert.
cacheId == <<"app", "cache">>
LazyFns == {"f", "g"}
LazyValue(lazy) == IF lazy = "f" THEN [str |-> "s3cret"] ELSE [str |-> "other"]

\* cache.getOrInsert(key, valueLazy)
GetOrInsert(key, lazy) ==
  /\ UNCHANGED runtimeVars
  /\ BuildPath(cacheId, ".json") \in registeredPaths
  /\ UNCHANGED <<personaState, declVars, storeVars, declCount, manifest, processEnv>>
  /\ With(BuildTimeStore_getOrInsert(BuildState, currentPersona, "cache",
                                     IdValue(key), LazyValue(lazy)), LAMBDA r :
       /\ SetBuild(r.b)
       /\ lastCall' = CallRet("getOrInsert", <<IdValue(key), lazy>>, r.outcome, r.ret))

NoContents == [ports |-> None, passwords |-> None, cache |-> None]

\* The process ends and the same program is started again on the same build
\* folder: with PERSONA = env and, for a container of the manifest, with the
\* environment of the service svc.  The startup phase declares what it
\* declared before; nothing cached in memory survives.
NewProcess(env, svc) ==
  /\ UNCHANGED runtimeVars
  /\ svc # Undefined => manifest # None /\ MapHas(manifest[1], svc)
  /\ envPERSONA' = env
  /\ processEnv' = IF svc = Undefined THEN <<>> ELSE MapGet(manifest[1], svc)
  /\ currentPersona' = Undefined
  /\ invoked' = <<>>
  /\ pending' = {}
  /\ ipState' = "idle"
  /\ logged' = 0
  /\ lastCall' = Call("start", Ok)
  /\ storeContents' = NoContents
  /\ UNCHANGED <<registeredPersonas, declVars, storeVars, declCount>>
  /\ UNCHANGED <<diskFiles, manifest, buildValues, lazyCalls>>

(***************************************************************************)
(* Initial states.                                                         *)
(***************************************************************************)
\* A process that has run its startup phase, with PERSONA = env and the
\* registries R the declarations left.
StartedProcess(env, R) ==
  /\ envPERSONA = env
  /\ registeredPersonas = R.personas
  /\ currentPersona = Undefined
  /\ invoked = <<>>
  /\ pending = {}
  /\ ipState = "idle"
  /\ logged = 0
  /\ lastCall = NoCall
  /\ secrets = R.secrets
  /\ volumes = R.volumes
  /\ services = R.services
  /\ registeredPaths = R.registeredPaths
  /\ callbacks = R.callbacks
  /\ cliCommands = R.cliCommands
  /\ cliPersona = R.cliPersona
  /\ files = R.files
  /\ declCount = 0

\* A process whose modules have been loaded, with PERSONA = env.
InitProcess(env) == StartedProcess(env, InitRegs)

\* No store has been constructed; the database is empty.
InitStore ==
  /\ backingStore = Undefined
  /\ indexes = <<>>
  /\ memData = <<>>
  /\ memIndex = <<>>
  /\ pgPrimary = {}
  /\ pgIndex = <<>>
  /\ tx = [c \in Clients |-> IdleTx]
  /\ cursor = IdleCursor

\* createPool has not been called.
IdlePool ==
  [pc |-> "idle", attempt |-> 0, elapsed |-> 0, waited |-> 0, delay |-> 0,
   err |-> Undefined]

\* teardown() has not been called.
IdleTeardown ==
  [pc |-> "idle", atCall |-> 0, invoked |-> <<>>, pending |-> {}, logged |-> 0,
   outcome |-> Ok]

\* No handler and no command is registered, no command is given.
InitCli ==
  /\ argv = None
  /\ commandEntry = <<>>
  /\ exitCode = None

\* No identity has been built character by character.
NoTemplate == [strings |-> <<<<>>>>, values |-> <<>>]
NoIdOut == [op |-> "none", a |-> <<>>, b |-> <<>>, parts |-> <<>>]

\* Nothing runs side by side.
NoTwin == [op |-> "none", arg |-> <<>>, mem |-> Call("none", Ok), pg |-> Call("none", Ok)]
\* The two sessions of the database that run a transaction at the same time;
\* `at` is the statement a session is to run next, locks the rows it holds
\* (with what they were when it took them), blocked says the statement has
\* been sent and waits for a row lock, gone that the rows it waited for were
\* deleted by the transaction that held them.
Sessions == {"set", "del"}
IdleSession ==
  [pc |-> "idle", queries |-> <<>>, at |-> 1, locks |-> <<>>, blocked |-> FALSE,
   gone |-> FALSE, outcome |-> Ok]
NoTxns == [s \in Sessions |-> IdleSession]
NoPoolUse == [starts |-> 0, users |-> <<>>]

InitSide ==
  /\ twin = NoTwin
  /\ txns = NoTxns
  /\ poolUse = NoPoolUse

InitIds ==
  /\ InitSide
  /\ segsA = <<>>
  /\ segsB = <<>>
  /\ tmpl = NoTemplate
  /\ idOut = NoIdOut

InitRuntime ==
  /\ pool = IdlePool
  /\ handlers = <<>>
  /\ teardownRun = IdleTeardown
  /\ InitCli
  /\ InitIds

\* An empty build folder.
InitBuild ==
  /\ diskFiles = NoContents
  /\ storeContents = NoContents
  /\ manifest = None
  /\ processEnv = <<>>
  /\ buildValues = <<>>
  /\ lazyCalls = <<>>

(***************************************************************************)
(* The epochs: any program text, declared at startup or after runPersona,  *)
(* under any value of PERSONA.                                             *)
(***************************************************************************)
Init ==
  /\ \E env \in EnvValues : InitProcess(env)
  /\ InitStore
  /\ InitRuntime
  /\ InitBuild

appA == <<"app", "a">>

RunArgs == {<<>>, appA, rootId("build-infra")}

Next ==
  \/ \E host \in {"node"}, entry \in EntryBehaviour :
       NewPersona(appA, host, entry, Undefined)
  \/ \E kind \in {"port"} : NewSecret(appA, kind)
  \/ NewDockerService(appA)
  \/ NewBuildTimeFile(appA, TRUE)
  \/ NewBuildTimeStore(cacheId)
  \/ GitIgnorePath(BuildPath(cacheId, ".json"))
  \/ NewStore(storeId)
  \/ NewCliCommand(<<"app", "cmd">>, "run")
  \/ DefineIndex(fromIndexId)
  \/ \E idArg \in RunArgs : RunPersona(idArg)
  \/ \E key \in pending : SettleEntryPoint(key)
  \/ InProcessResume
  \/ StoreGet("key1")
  \/ StoreHas("key1")
  \/ StoreAllKeys
  \/ StoreSet("key1", Some(mOne))
  \/ StoreDel("key1")
  \/ StoreModify("c1", "key1", "drop")
  \/ StoreModifySelect("c1")
  \/ StoreModifyCommit("c1")
  \/ \E i \in 1..2 : SecretGet(i)

Spec == Init /\ [][Next]_vars

(***************************************************************************)
(* The epochs: claims.                                                     *)
(***************************************************************************)
\* A step that is a call of runPersona.
RunPersonaStep == \E idArg \in RunArgs : RunPersona(idArg)

C4_Selected(idArg, env) ==
  IF idArg # <<>> THEN Some(idToSafeName(idArg))
  ELSE IF env = Undefined THEN Some(inProcessPersona.environmentVariableValue)
  ELSE IF env = "" THEN None
  ELSE Some(Trim(env))

RuntimeOnlyOps == {"get", "has", "set", "del", "modify", "allKeys", "Secret.get"}
StartupOnlyOps ==
  {"new Store", "new store.Index", "new BuildTimeFile", "new BuildTimeStore",
   "new DockerService", "new CliCommand", "gitIgnorePath"}

\* The identities of the indexes declared on the store.
DeclaredIndexes == <<MapKeys(memIndex), indexes, MapKeys(pgIndex)>>

\* C5: a runtime-only operation (Store get/has/set/del/modify/allKeys,
\* Secret.get) never succeeds while currentPersona is unset, and Secret.get
\* raises the assertNotStartup error exactly then; a startup-only operation
\* (constructing a Store, a store index, a BuildTimeFile, a BuildTimeStore, a
\* DockerService or a CliCommand, and gitIgnorePath) called when
\* currentPersona is set raises the assertStartupTime error and leaves every
\* registry, the backing store and the declared indexes unchanged.
C5_Epochs ==
  /\ [](lastCall.op \in RuntimeOnlyOps /\ ~Raised(lastCall)
          => currentPersona # Undefined)
  /\ [][/\ (lastCall'.op = "Secret.get" /\ lastCall' # lastCall) =>
             (lastCall'.outcome = assertNotStartup(Undefined)
                <=> currentPersona = Undefined)
        /\ (currentPersona = Undefined /\ lastCall'.op \in RuntimeOnlyOps
              /\ lastCall' # lastCall) => Raised(lastCall')
        /\ (currentPersona # Undefined /\ lastCall'.op \in StartupOnlyOps) =>
             /\ Regs' = Regs
             /\ backingStore' = backingStore
             /\ DeclaredIndexes' = DeclaredIndexes
        /\ (currentPersona # Undefined /\ lastCall'.op \in StartupOnlyOps
              /\ lastCall' # lastCall) =>
             lastCall'.outcome = assertStartupTime(currentPersona)
        /\ (currentPersona = Undefined /\ lastCall'.op \in StartupOnlyOps
              /\ lastCall' # lastCall) =>
             lastCall'.outcome # assertStartupTime("build-infra")]_vars

\* A DockerService was constructed after runPersona, and the call raised.
C5_Witness ==
  /\ currentPersona # Undefined
  /\ services # <<>>
  /\ lastCall.op = "new DockerService"
  /\ Raised(lastCall)

(***************************************************************************)
(* The store: a program that declares a worker persona, a store and its    *)
(* indexes, runs, and then uses the store from one client, one call after  *)
(* the other.  Without PERSONA the store is in memory; with PERSONA naming *)
(* the worker it is on postgres.                                           *)
(***************************************************************************)
StoreEnvValues == {Undefined, idToSafeName(appA)}

InitStoreProgram ==
  /\ \E env \in StoreEnvValues : InitProcess(env)
  /\ InitStore
  /\ InitRuntime
  /\ InitBuild

\* No modify call is under way: the client awaits each call.
Quiet == \A c \in Clients : tx[c].pc \in {"idle", "done"}

\* The options index.get is called with.
GetOpts ==
  {NoOpts,
   [retrieveValues |-> "true", retrieveInlineValues |-> Undefined],
   [retrieveValues |-> Undefined, retrieveInlineValues |-> "false"],
   [retrieveValues |-> "true", retrieveInlineValues |-> "false"]}

StoreValues == {mOne, mDup}

NextStore ==
  \/ NewPersona(appA, "node", "returns", Undefined)
  \/ NewStore(storeId)
  \/ \E id \in IndexIds : DefineIndex(id)
  \/ RunPersona(<<>>)
  \/ InProcessResume
  \/ \E key \in Keys : Quiet /\ StoreGet(key)
  \/ \E key \in Keys : Quiet /\ StoreHas(key)
  \/ Quiet /\ StoreAllKeys
  \/ \E key \in Keys, value \in StoreValues : Quiet /\ StoreSet(key, Some(value))
  \/ \E key \in Keys : Quiet /\ StoreSet(key, None)
  \/ \E key \in Keys : Quiet /\ StoreDel(key)
  \/ \E opts \in GetOpts : Quiet /\ IndexGet(fromIndexId, "Alice", opts)
  \/ \E opts \in GetOpts : Quiet /\ IndexGet(toIndexId, "Bob", opts)
  \/ \E fn \in ModifyFns : Quiet /\ StoreModify("c1", "key1", fn)
  \/ StoreModifySelect("c1")
  \/ StoreModifyCommit("c1")

SpecStore == InitStoreProgram /\ [][NextStore]_vars

(***************************************************************************)
(* The store under two clients whose modify calls on one key may overlap.  *)
(***************************************************************************)
NextModify ==
  \/ NewPersona(appA, "node", "returns", Undefined)
  \/ NewStore(storeId)
  \/ RunPersona(<<>>)
  \/ InProcessResume
  \/ \E c \in Clients, fn \in ModifyFns : StoreModify(c, "key1", fn)
  \/ \E c \in Clients : StoreModifySelect(c)
  \/ \E c \in Clients : StoreModifyCommit(c)

SpecModify == InitStoreProgram /\ [][NextModify]_vars

(***************************************************************************)
(* The store while one client enumerates its keys and the calls of another *)
(* (set, del, modify) run between two steps of the enumeration.            *)
(***************************************************************************)
\* The batchSize option allKeys is called with.
BatchOpts == {None, Some(1)}

\* The writes that may run while one enumeration is open.
MaxScanWrites == 2

MayWrite == cursor.pc = "open" => cursor.writes < MaxScanWrites

NextScan ==
  \/ NewPersona(appA, "node", "returns", Undefined)
  \/ NewStore(storeId)
  \/ RunPersona(<<>>)
  \/ InProcessResume
  \/ \E opt \in BatchOpts : Quiet /\ AllKeysOpen(opt)
  \/ AllKeysNext
  \/ \E key \in Keys : Quiet /\ MayWrite /\ StoreSet(key, Some(mOne))
  \/ \E key \in Keys : Quiet /\ MayWrite /\ StoreDel(key)
  \/ \E fn \in ModifyFns : Quiet /\ MayWrite /\ StoreModify("c1", "key1", fn)
  \/ StoreModifySelect("c1")
  \/ StoreModifyCommit("c1")

SpecScan == InitStoreProgram /\ [][NextScan]_vars

(***************************************************************************)
(* The store: claims.                                                      *)
(***************************************************************************)
\* How many entries the indexer of index `id` gives the stored value of `key`
\* under index key `indexKey` with inline value `inlineValue`.
Implied(id, indexKey, key, inlineValue) ==
  IF Store_get(key) = None THEN 0
  ELSE Cardinality({i \in DOMAIN Indexer(id, Store_get(key)[1]) :
                      /\ Indexer(id, Store_get(key)[1])[i].indexKey = indexKey
                      /\ Indexer(id, Store_get(key)[1])[i].inlineValue = inlineValue})

\* How many entries with that key and inline value the index returns.
Held(id, indexKey, key, inlineValue) ==
  Cardinality({i \in DOMAIN Store_index_get(id, indexKey, NoOpts) :
                 /\ Store_index_get(id, indexKey, NoOpts)[i].key = key
                 /\ Store_index_get(id, indexKey, NoOpts)[i].inlineValue = inlineValue})

\* C1: once the set/del/modify calls made have completed, every declared
\* index holds under every index key exactly the entries its indexer gives
\* the values stored (as many times as the indexer gives them), and none for
\* an absent key, on both backends.
C1_IndexesReflectValues ==
  (backingStore # Undefined /\ Quiet) =>
    \A id \in DefinedIndexIds, indexKey \in Names, key \in Keys,
       inlineValue \in InlineValues :
      Held(id, indexKey, key, Some(inlineValue))
        = Implied(id, indexKey, key, Some(inlineValue))

\* A value whose indexer output repeats an index key is stored and indexed.
C1_Witness ==
  /\ backingStore # Undefined
  /\ Quiet
  /\ toIndexId \in DefinedIndexIds
  /\ Store_get("key1") = Some(mDup)
  /\ Held(toIndexId, "Bob", "key1", Some([from |-> "Alice"])) = 2

\* The store has no declared index.
NoIndexes == DefinedIndexIds = {} /\ indexes = <<>>

\* What get and has return for `key` in the present state.
Stored(key) == <<Store_get(key), Store_has(key)>>

\* C9: on a store with no declared indexes, on either backend: set(k, v)
\* that returns leaves get(k) = v and has(k) true; del(k) and
\* set(k, undefined) leave get(k) undefined; modify(k, fn) returns fn of the
\* value get(k) gave before the call and leaves get(k) equal to it; and no
\* other key changes.
C9_BasicOperations ==
  [][\A key \in Keys :
       /\ \A value \in StoreValues :
            (NoIndexes /\ StoreSet(key, Some(value)) /\ ~Raised(lastCall')) =>
              /\ Stored(key)' = <<Some(value), TRUE>>
              /\ \A other \in Keys \ {key} : Stored(other)' = Stored(other)
       /\ (NoIndexes /\ (StoreDel(key) \/ StoreSet(key, None))
             /\ ~Raised(lastCall')) =>
            /\ Stored(key)' = <<None, FALSE>>
            /\ \A other \in Keys \ {key} : Stored(other)' = Stored(other)
       /\ \A fn \in ModifyFns :
            (/\ NoIndexes
             /\ \/ InMemory /\ StoreModify("c1", key, fn)
                \/ /\ StoreModifyCommit("c1")
                   /\ tx["c1"].key = key
                   /\ tx["c1"].fn = fn
             /\ lastCall'.op = "modify"
             /\ ~Raised(lastCall')) =>
              /\ lastCall'.ret = Apply(fn, Store_get(key))
              /\ Store_get(key)' = lastCall'.ret
              /\ Store_has(key)' = (lastCall'.ret # None)
              /\ \A other \in Keys \ {key} : Stored(other)' = Stored(other)]_vars

\* modify has stored the result of fn on a store without indexes, next to
\* another key that holds a value.
C9_Witness ==
  /\ NoIndexes
  /\ backingStore = "PostgresStore"
  /\ lastCall.op = "modify"
  /\ lastCall.arg = <<"key1", "addBob">>
  /\ lastCall.ret = Some(mOne)
  /\ Store_get("key1") = Some(mOne)
  /\ Store_get("key2") = Some(mDup)

\* OptOr over the options of a call, for the claim.
Opt(opts, name, default) ==
  IF opts[name] = Undefined THEN default ELSE opts[name] = "true"

\* The fields an entry of index.get is to have under `opts`.
EntryFields(opts) ==
  {"key"}
    \cup (IF Opt(opts, "retrieveValues", FALSE) THEN {"value"} ELSE {})
    \cup (IF Opt(opts, "retrieveInlineValues", TRUE) THEN {"inlineValue"} ELSE {})

\* How many entries for `key` there are in what index.get returned.
Returned(ret, key) == Cardinality({i \in DOMAIN ret : ret[i].key = key})

\* How many entries the indexer gives the stored value of `key` under indexKey.
ImpliedEntries(id, indexKey, key) ==
  IF Store_get(key) = None THEN 0
  ELSE Cardinality({i \in DOMAIN Indexer(id, Store_get(key)[1]) :
                      Indexer(id, Store_get(key)[1])[i].indexKey = indexKey})

\* C10: index.get(indexKey, opts) returns one entry per entry the indexer
\* gives a stored value under indexKey, each with the primary key and, when
\* it has one, an inline value the indexer recorded; an entry has the primary
\* value only when retrieveValues is true (default false) and the inline
\* value only when retrieveInlineValues is true (default true).
C10_IndexGet ==
  (lastCall.op = "index.get" /\ ~Raised(lastCall) /\ Quiet) =>
    /\ \A key \in Keys :
         Returned(lastCall.ret, key)
           = ImpliedEntries(lastCall.arg[1], lastCall.arg[2], key)
    /\ \A i \in DOMAIN lastCall.ret :
         /\ DOMAIN lastCall.ret[i] \cap {"key", "value", "inlineValue"}
              = EntryFields(lastCall.arg[3])
         /\ "value" \in DOMAIN lastCall.ret[i] =>
              Some(lastCall.ret[i].value) = Store_get(lastCall.ret[i].key)
         /\ "inlineValue" \in DOMAIN lastCall.ret[i] =>
              Implied(lastCall.arg[1], lastCall.arg[2], lastCall.ret[i].key,
                      lastCall.ret[i].inlineValue) > 0

\* index.get was called without options on the in-memory store and returned
\* an entry.
C10_Witness ==
  /\ InMemory
  /\ lastCall.op = "index.get"
  /\ lastCall.arg[3] = NoOpts
  /\ lastCall.ret # <<>>

(***************************************************************************)
(* Overlapping modify calls: claims.                                       *)
(***************************************************************************)
\* The modify calls of clients c and d on one key overlapped each other and
\* no other call, both have returned, and nothing has written the key since.
Overlapped(c, d) ==
  /\ c # d
  /\ tx[c].pc = "done" /\ tx[d].pc = "done"
  /\ tx[c].key = tx[d].key
  /\ tx[c].peers = {d} /\ tx[d].peers = {c}
  /\ tx[c].clean /\ tx[d].clean
  /\ tx[c].outcome = Ok /\ tx[d].outcome = Ok

\* C2: when two modify calls on the same key have overlapped, the value
\* stored afterwards is the one that running the two calls one after the
\* other, in one order or the other, on the value stored before them leaves,
\* whether or not the key was present before.
C2_ModifyAtomic ==
  \A c, d \in Clients :
    Overlapped(c, d) =>
      Store_get(tx[c].key) \in
        {Apply(tx[d].fn, Apply(tx[c].fn, tx[c].v0)),
         Apply(tx[c].fn, Apply(tx[d].fn, tx[c].v0))}

\* Two modify calls on a key that was absent have overlapped and returned.
C2_Witness ==
  \E c, d \in Clients : Overlapped(c, d) /\ tx[c].v0 = None /\ tx[d].v0 = None

(***************************************************************************)
(* The build: a program that declares a worker persona, its secrets, a     *)
(* BuildTimeStore of its own and two services.  It is built, built again,  *)
(* and its containers are started with the environment of the manifest.    *)
(***************************************************************************)
appB == <<"app", "b">>
appC == <<"app", "c">>

\* The secrets of the program text, in declaration order.
Programs ==
  {<<[id |-> appA, kind |-> "port"], [id |-> appB, kind |-> "port"],
     [id |-> appC, kind |-> "port"], [id |-> <<"app", "pw">>, kind |-> "password"],
     [id |-> <<"app", "key">>, kind |-> "const"]>>,
   <<[id |-> rootId("nextPortNumber"), kind |-> "port"],
     [id |-> appA, kind |-> "port"], [id |-> appB, kind |-> "port"]>>}

MaxSecrets == 5

RECURSIVE DeclareSecrets(_, _)
DeclareSecrets(R, decls) ==
  IF decls = <<>> THEN R
  ELSE DeclareSecrets(NewSecretIn(R, Head(decls).id, Head(decls).kind).regs, Tail(decls))

\* The startup phase of the program: the registries it leaves.
StartupRegs(decls) ==
  With(NewPersonaStep(InitRegs, appA, "node", "returns", Undefined).regs, LAMBDA R1 :
  With(DeclareSecrets(R1, decls), LAMBDA R2 :
  With(NewBuildTimeStoreIn(R2, Undefined, cacheId).regs, LAMBDA R3 :
  With(NewDockerServiceIn(R3, Undefined, appA,
         <<[key |-> "PORT", ref |-> idToSafeName(decls[1].id)]>>).regs, LAMBDA R4 :
    NewDockerServiceIn(R4, Undefined, appB, <<>>).regs))))

BuildEnvValues == {"build-infra", idToSafeName(appA)}

InitBuildProgram ==
  /\ \E env \in BuildEnvValues, decls \in Programs :
       StartedProcess(env, StartupRegs(decls))
  /\ InitStore
  /\ InitRuntime
  /\ InitBuild

NextBuild ==
  \/ RunPersona(<<>>)
  \/ \E i \in 1..MaxSecrets : SecretGet(i)
  \/ \E key \in {appA, appB}, lazy \in LazyFns : GetOrInsert(key, lazy)
  \/ \E env \in BuildEnvValues : NewProcess(env, Undefined)
  \/ \E svc \in {idToSafeName(appA), idToSafeName(appB)} :
       NewProcess(idToSafeName(appA), svc)

SpecBuild == InitBuildProgram /\ [][NextBuild]_vars

(***************************************************************************)
(* The build: claims.                                                      *)
(***************************************************************************)
\* The values Secret.get() has returned for the secret `name` in the build
\* persona, in the order they were first returned.
BuildValuesOf(name) == IF MapHas(buildValues, name) THEN MapGet(buildValues, name) ELSE <<>>

RuntimeHosts == {"node", "cli", "cli-command"}

\* This process is a container (or command) started with a service's
\* environment of the manifest.
StartedFromManifest ==
  /\ manifest # None
  /\ \E i \in DOMAIN manifest[1] : processEnv = manifest[1][i][2]

\* C6: for every declared secret and every service of the generated
\* manifest, the service's environment binds the secret's variable to the
\* JSON encoding of the secret's build-time value; and Secret.get() in a
\* node, cli or cli-command persona started with that environment returns a
\* value equal to the one Secret.get() returned in the build persona.
C6_SecretsReachRuntime ==
  /\ manifest # None =>
       \A s \in DOMAIN manifest[1], i \in DOMAIN secrets :
         /\ MapHas(manifest[1][s][2], secrets[i].name)
         /\ BuildValuesOf(secrets[i].name) # <<>>
         /\ \A v \in Range(BuildValuesOf(secrets[i].name)) :
              MapGet(manifest[1][s][2], secrets[i].name) = JSONStringify(v)
  /\ \A i \in DOMAIN secrets :
       ( /\ StartedFromManifest
         /\ currentPersona # Undefined
         /\ PersonaAt(registeredPersonas, currentPersona).host \in RuntimeHosts
         /\ lastCall.op = "Secret.get"
         /\ lastCall.arg = <<secrets[i].name>> )
       => /\ lastCall.outcome = Ok
          /\ \A v \in Range(BuildValuesOf(secrets[i].name)) : lastCall.ret = Some(v)

\* A container started with a service's environment has read a secret that
\* is not the first port allocated, in the program whose first Port has the
\* identity 'nextPortNumber'.
C6_Witness ==
  /\ StartedFromManifest
  /\ currentPersona = idToSafeName(appA)
  /\ lastCall.op = "Secret.get"
  /\ lastCall.outcome = Ok
  /\ lastCall.ret # Some([num |-> START_OF_PORT_RANGE])
  /\ Len(secrets) = 3

\* What the backing file of the program's store holds under `key`.
CacheText(key) ==
  IF diskFiles.cache # None /\ MapHas(diskFiles.cache[1], IdValue(key))
  THEN Some(MapGet(diskFiles.cache[1], IdValue(key))) ELSE None

\* How many times a valueLazy was called for `key`.
LazyCount(key) ==
  IF MapHas(lazyCalls, <<"cache", IdValue(key)>>)
  THEN MapGet(lazyCalls, <<"cache", IdValue(key)>>) ELSE 0

CacheKeys == {appA, appB}

\* C7: the first getOrInsert(key, f) on a key absent from the backing file
\* calls f once, persists the value and returns it; every later
\* getOrInsert(key, g) on that key, in this build process or in a later one
\* reading the same file, returns a value equal to the first one (the value
\* persisted, which never changes) and does not call g.
C7_GetOrInsert ==
  [][\A key \in CacheKeys :
       /\ CacheText(key) # None => CacheText(key)' = CacheText(key)
       /\ \A lazy \in LazyFns :
            (GetOrInsert(key, lazy) /\ currentPersona = buildPersona.environmentVariableValue)
            => /\ lastCall'.outcome = Ok
               /\ IF CacheText(key) = None
                  THEN /\ LazyCount(key)' = LazyCount(key) + 1
                       /\ lastCall'.ret = Some(LazyValue(lazy))
                       /\ CacheText(key)' = Some(JSONStringify(LazyValue(lazy)))
                  ELSE /\ lazyCalls' = lazyCalls
                       /\ diskFiles' = diskFiles
                       /\ lastCall'.ret = Some(JSONParse(CacheText(key)[1]))]_vars

\* A later getOrInsert(key, g) that returned the value f gave the first call.
C7_Witness ==
  /\ lastCall.op = "getOrInsert"
  /\ lastCall.arg = <<IdValue(appA), "g">>
  /\ lastCall.outcome = Ok
  /\ lastCall.ret = Some(LazyValue("f"))
  /\ LazyCount(appA) = 1
  /\ CacheText(appA) = Some(JSONStringify(LazyValue("f")))

\* The Port secrets resolved at build time so far, in the order of their
\* first resolution, each with the numbers it was given.
IsPort(name) == \E i \in DOMAIN secrets : secrets[i].name = name /\ secrets[i].kind = "port"
PortsResolved == SelectSeq(buildValues, LAMBDA e : IsPort(e[1]))

\* The stored next-port counter.
PortCounter ==
  IF diskFiles.ports # None /\ MapHas(diskFiles.ports[1], nextPortNumber)
  THEN Some(MapGet(diskFiles.ports[1], nextPortNumber)) ELSE None

AtBuildTime == currentPersona = buildPersona.environmentVariableValue

\* C8: starting from an empty ports ledger, Ports of distinct identities
\* resolve to distinct, strictly increasing integers, the first of them the
\* base port number; resolving an identity that has a number again, in this
\* build or a later one on the same ledger, returns that number and leaves
\* the counter as it is.
C8_PortAllocation ==
  /\ [](/\ PortsResolved # <<>> => PortsResolved[1][2][1] = [num |-> START_OF_PORT_RANGE]
        /\ \A i, j \in DOMAIN PortsResolved :
             i < j => PortsResolved[i][2][1].num < PortsResolved[j][2][1].num
        /\ \A i \in DOMAIN PortsResolved : Len(PortsResolved[i][2]) = 1)
  /\ [][\A i \in DOMAIN secrets :
          ( /\ SecretGet(i)
            /\ AtBuildTime
            /\ secrets[i].kind = "port"
            /\ BuildValuesOf(secrets[i].name) # <<>> )
          => /\ lastCall'.outcome = Ok
             /\ lastCall'.ret = Some(BuildValuesOf(secrets[i].name)[1])
             /\ PortCounter' = PortCounter]_vars

\* Three Ports have been resolved by a build, and one of them has been
\* resolved again at build time.
C8_Witness ==
  /\ Len(PortsResolved) = 3
  /\ manifest # None
  /\ AtBuildTime
  /\ lastCall.op = "Secret.get"
  /\ lastCall.arg = <<idToSafeName(appB)>>
  /\ lastCall.outcome = Ok

(***************************************************************************)
(* The store: enumerating the keys.                                        *)
(***************************************************************************)
NoDuplicates(seq) == \A i, j \in DOMAIN seq : seq[i] = seq[j] => i = j

\* C11: on either backend, whatever set, del and modify calls ran between the
\* steps of an allKeys enumeration, the finished enumeration has yielded every
\* key that was present when it started and was not deleted while it ran; and
\* when nothing was written while it ran, it has yielded exactly the keys
\* present, each once.
C11_AllKeys ==
  cursor.pc = "done" =>
    /\ (cursor.atStart \ cursor.deleted) \subseteq Range(cursor.yielded)
    /\ cursor.writes = 0 =>
         /\ Range(cursor.yielded) = cursor.atStart
         /\ NoDuplicates(cursor.yielded)

\* An enumeration of two keys finished after one of them was deleted and the
\* other written again while it was open; the surviving key was yielded.
C11_Witness ==
  /\ cursor.pc = "done"
  /\ cursor.atStart = Keys
  /\ cursor.writes > 0
  /\ Cardinality(cursor.deleted) = 1
  /\ (Keys \ cursor.deleted) \subseteq Range(cursor.yielded)
  /\ Len(cursor.yielded) >= 2

(***************************************************************************)
(* The personas of a program: declared in any order, some under a key or   *)
(* a host that is taken, and run in-process or under PERSONA.              *)
(***************************************************************************)
PersonaDecl(id, host, entry, keyOpt) ==
  [id |-> id, host |-> host, entryPoint |-> entry, keyOpt |-> keyOpt]

\* The Persona constructions the program text may hold.
PersonaDecls ==
  {PersonaDecl(appA, "node", "returns", Undefined),
   PersonaDecl(appA, "node", "throws", Undefined),
   PersonaDecl(appB, "node", "resolves", Undefined),
   PersonaDecl(appB, "node", "rejects", Undefined),
   PersonaDecl(appB, "cli", "returns", Undefined),
   PersonaDecl(appB, "none", "returns", idToSafeName(appA)),
   PersonaDecl(appC, "cli", "resolves", Undefined),
   PersonaDecl(appC, "cli", "rejects", Undefined),
   PersonaDecl(appC, "cli", "throws", Undefined),
   PersonaDecl(appC, "browser", "returns", Undefined),
   PersonaDecl(appC, "cli-command", "returns", Undefined)}

\* this.environmentVariableValue of a construction.
KeyOf(d) == IF d.keyOpt # Undefined THEN d.keyOpt ELSE idToSafeName(d.id)

\* The registries when the program text has made none or one of its
\* constructions.
PersonaStartRegs ==
  {InitRegs} \cup
  {NewPersonaStep(InitRegs, d.id, d.host, d.entryPoint, d.keyOpt).regs : d \in PersonaDecls}

PersonaEnvValues == {Undefined, idToSafeName(appA)}

InitPersonaProgram ==
  /\ \E env \in PersonaEnvValues, R \in PersonaStartRegs : StartedProcess(env, R)
  /\ InitStore
  /\ InitRuntime
  /\ InitBuild

NextPersona ==
  \/ \E d \in PersonaDecls : NewPersona(d.id, d.host, d.entryPoint, d.keyOpt)
  \/ \E idArg \in {<<>>, appA} : RunPersona(idArg)
  \/ \E key \in pending : SettleEntryPoint(key)
  \/ InProcessResume

SpecPersona == InitPersonaProgram /\ [][NextPersona]_vars

(***************************************************************************)
(* The personas: claims.                                                   *)
(***************************************************************************)
CliPersonas(reg) == SelectSeq(reg, LAMBDA p : p.host = "cli")

\* C12: the registry never holds two personas under one key nor two personas
\* of host 'cli'; and a Persona construction whose key is registered, or a
\* construction of a 'cli' persona when one is registered, raises and leaves
\* the registry as it was.
C12_PersonaRegistry ==
  /\ [](/\ \A i, j \in DOMAIN registeredPersonas :
            registeredPersonas[i].environmentVariableValue
              = registeredPersonas[j].environmentVariableValue => i = j
        /\ Len(CliPersonas(registeredPersonas)) <= 1)
  /\ [][\A d \in PersonaDecls :
          (/\ NewPersona(d.id, d.host, d.entryPoint, d.keyOpt)
           /\ \/ HasPersona(registeredPersonas, KeyOf(d))
              \/ d.host = "cli" /\ CliPersonas(registeredPersonas) # <<>>)
          => /\ Raised(lastCall')
             /\ registeredPersonas' = registeredPersonas]_vars

\* A 'cli' persona under a free key was refused because one is registered.
C12_Witness ==
  /\ lastCall.op = "new Persona"
  /\ lastCall.outcome = "Error: CLI persona already registered"
  /\ Len(CliPersonas(registeredPersonas)) = 1
  /\ Len(registeredPersonas) >= 4

\* A runPersona call that dispatches the in-process persona.
InProcessStart ==
  /\ RunPersona(<<>>)
  /\ currentPersona = Undefined
  /\ currentPersona' = inProcessPersona.environmentVariableValue

\* The personas whose entry point returns a promise.
IsAsync(reg, key) == PersonaAt(reg, key).entryPoint \in {"resolves", "rejects"}

\* C13: the in-process persona calls the entry points of the non-interactive
\* personas it runs one after the other without awaiting any (when the last
\* has been called, every promise they returned is still unsettled and the
\* 'cli' entry point has not been called); and it calls the 'cli' entry point
\* only when every entry point it called has returned, thrown or settled.
C13_Order ==
  /\ [][InProcessStart =>
         \A i \in DOMAIN invoked' :
           /\ PersonaAt(registeredPersonas, invoked'[i]).host # "cli"
           /\ IsAsync(registeredPersonas, invoked'[i])
                /\ invoked'[i] # inProcessPersona.environmentVariableValue
              => invoked'[i] \in pending']_vars
  /\ [][(InProcessResume /\ invoked' # invoked) =>
         \A i \in DOMAIN invoked : invoked[i] \notin pending]_vars

\* Two personas were run in-process, one of them returning a promise, and
\* the 'cli' persona's entry point was called after them.
C13_Witness ==
  /\ currentPersona = inProcessPersona.environmentVariableValue
  /\ Len(invoked) = 4
  /\ PersonaAt(registeredPersonas, invoked[4]).host = "cli"
  /\ \E i \in 2..3 : IsAsync(registeredPersonas, invoked[i])
  /\ \E i \in 2..3 : ~IsAsync(registeredPersonas, invoked[i])

\* How many times the entry point registered under `key` was called.
TimesInvoked(inv, key) == Cardinality({i \in DOMAIN inv : inv[i] = key})

\* C14: when the in-process persona runs, the entry point of every registered
\* persona other than itself whose host is neither 'build' nor 'cli' is called
\* exactly once; the 'cli' entry point, if one is registered, is called after
\* them; the build persona's entry point is never called.
C14_InProcessRunsAll ==
  /\ [][InProcessStart =>
         \A i \in DOMAIN registeredPersonas :
           LET p == registeredPersonas[i] IN
           IF p.host \in {"build", "cli"} \/ p = inProcessPersona
           THEN p = inProcessPersona \/ TimesInvoked(invoked', p.environmentVariableValue) = 0
           ELSE TimesInvoked(invoked', p.environmentVariableValue) = 1]_vars
  /\ [][InProcessResume =>
         /\ CliPersonas(registeredPersonas) # <<>> =>
              invoked' = Append(invoked,
                                CliPersonas(registeredPersonas)[1].environmentVariableValue)
         /\ CliPersonas(registeredPersonas) = <<>> => invoked' = invoked]_vars
  /\ [](currentPersona = inProcessPersona.environmentVariableValue =>
          TimesInvoked(invoked, buildPersona.environmentVariableValue) = 0)

\* The in-process persona has finished and a registered 'browser' persona,
\* constructed before it ran, was never called.
C14_Witness ==
  /\ currentPersona = inProcessPersona.environmentVariableValue
  /\ ipState = "done"
  /\ declCount = 0
  /\ logged = 0
  /\ \E i \in DOMAIN registeredPersonas :
       /\ registeredPersonas[i].host = "browser"
       /\ TimesInvoked(invoked, registeredPersonas[i].environmentVariableValue) = 0

Thrown(reg, inv) == {i \in DOMAIN inv : PersonaAt(reg, inv[i]).entryPoint = "throws"}

\* C16: in-process, an entry point that throws or whose promise rejects is
\* logged and stops nothing: the loop of the in-process persona calls every
\* 'node' persona's entry point whatever the others did, logs one error for
\* each that threw, and goes on to await the promises (after which the 'cli'
\* entry point is called); each promise that rejects is logged when it
\* settles.
C16_ErrorsContained ==
  /\ [][InProcessStart =>
         /\ \A i \in DOMAIN registeredPersonas :
              IsNodeWorker(registeredPersonas[i]) =>
                TimesInvoked(invoked', registeredPersonas[i].environmentVariableValue) = 1
         /\ logged' = logged + Cardinality(Thrown(registeredPersonas, invoked'))
         /\ ipState' = "awaiting"]_vars
  /\ [][\A key \in pending :
          SettleEntryPoint(key) /\ PersonaAt(registeredPersonas, key).entryPoint = "rejects"
            => logged' = logged + 1]_vars

\* runPersona has just run the in-process persona: the first 'node' entry
\* point threw, the error was logged, and neither the second 'node' persona
\* nor the 'cli' persona was called.
C16_Witness ==
  /\ lastCall.op = "runPersona"
  /\ currentPersona = inProcessPersona.environmentVariableValue
  /\ ipState = "rejected"
  /\ logged = 1
  /\ Len(invoked) = 2
  /\ \E i \in DOMAIN registeredPersonas :
       /\ IsNodeWorker(registeredPersonas[i])
       /\ TimesInvoked(invoked, registeredPersonas[i].environmentVariableValue) = 0
  /\ CliPersonas(registeredPersonas) # <<>>

(***************************************************************************)
(* The declarations of a program, made at startup or after runPersona,     *)
(* some of them twice, in a process under any persona.                     *)
(***************************************************************************)
\* assertBuildTime() called by the program text.
AssertBuildTimeCall ==
  /\ lastCall' = Call("assertBuildTime", assertBuildTime(currentPersona))
  /\ UNCHANGED <<personaState, declVars, storeVars, buildVars, runtimeVars, declCount>>

DeclEnvValues == {Undefined, "build-infra", idToSafeName(appA)}

SecretKinds == {"port", "password", "const"}

\* The ids BuildTimeFile is constructed with; the second gives the path of
\* the manifest, which the library registers when it is loaded.
FileIds == {appA, <<"docker-compose.yml">>}

InitDeclProgram ==
  /\ \E env \in DeclEnvValues : InitProcess(env)
  /\ InitStore
  /\ InitRuntime
  /\ InitBuild

NextDecl ==
  \/ NewPersona(appA, "node", "returns", Undefined)
  \/ \E id \in {appA, appB}, kind \in SecretKinds : NewSecret(id, kind)
  \/ NewDockerVolume(appA)
  \/ NewDockerService(appA)
  \/ NewStore(storeId)
  \/ \E id \in FileIds, hasContent \in BOOLEAN : NewBuildTimeFile(id, hasContent)
  \/ AssertBuildTimeCall
  \/ RunPersona(<<>>)

SpecDecl == InitDeclProgram /\ [][NextDecl]_vars

(***************************************************************************)
(* The declarations: claims.                                               *)
(***************************************************************************)
\* A construction of a Persona, a Secret (a Port, a Password or a constant),
\* a DockerVolume, a DockerService or a Store.
Construction ==
  \/ NewPersona(appA, "node", "returns", Undefined)
  \/ \E id \in {appA, appB}, kind \in SecretKinds : NewSecret(id, kind)
  \/ NewDockerVolume(appA)
  \/ NewDockerService(appA)
  \/ NewStore(storeId)

\* C17: a Persona, Secret, DockerVolume, DockerService or Store constructed
\* after runPersona has set currentPersona raises and leaves the persona,
\* secret, volume and service registries as they were.
C17_StartupOnly ==
  [][(currentPersona # Undefined /\ Construction) =>
       /\ Raised(lastCall')
       /\ UNCHANGED <<registeredPersonas, secrets, volumes, services>>]_vars

\* A Secret was constructed after runPersona had selected a persona: the
\* call returned and the secret is registered.
C17_Witness ==
  /\ currentPersona # Undefined
  /\ lastCall = Call("new Secret", Ok)
  /\ secrets # <<>>

\* The process runs, or is about to run, as the build persona.
BuildProcess ==
  IF currentPersona # Undefined
  THEN currentPersona = buildPersona.environmentVariableValue
  ELSE envPERSONA # Undefined /\ Trim(envPERSONA) = buildPersona.environmentVariableValue

\* C18: assertBuildTime succeeds in a process that runs as the build persona,
\* at startup and after runPersona alike, and raises in a process that runs
\* as any other persona.
C18_AssertBuildTime ==
  [][AssertBuildTimeCall => (lastCall'.outcome = Ok <=> BuildProcess)]_vars

\* assertBuildTime raised at startup in the process started with
\* PERSONA=build-infra.
C18_Witness ==
  /\ envPERSONA = buildPersona.environmentVariableValue
  /\ currentPersona = Undefined
  /\ lastCall.op = "assertBuildTime"
  /\ Raised(lastCall)

\* C19: constructing a Secret under an environment variable name that is in
\* use, or a BuildTimeFile whose path is registered, raises at the
\* construction and leaves the secrets, the registered paths and the build
\* callbacks as they were.
C19_Duplicates ==
  [][/\ \A id \in {appA, appB}, kind \in SecretKinds :
          (NewSecret(id, kind) /\ idToSafeName(id) \in SecretNames(secrets))
          => /\ Raised(lastCall')
             /\ UNCHANGED <<secrets, registeredPaths, callbacks>>
     /\ \A id \in FileIds, hasContent \in BOOLEAN :
          (NewBuildTimeFile(id, hasContent) /\ BuildPath(id, "") \in registeredPaths)
          => /\ Raised(lastCall')
             /\ UNCHANGED <<secrets, registeredPaths, callbacks>>]_vars

\* At startup, with a secret declared, a BuildTimeFile for the path of a file
\* declared before it was refused.
C19_Witness ==
  /\ currentPersona = Undefined
  /\ lastCall = Call("new BuildTimeFile", "Error: BuildTimeFile with path already exists")
  /\ BuildPath(appA, "") \in registeredPaths
  /\ secrets # <<>>

(***************************************************************************)
(* The store: declaring an index twice.                                    *)
(***************************************************************************)
\* The store has an index of identity `id`.
HasIndex(id) ==
  IF InMemory THEN MapHas(memIndex, IdValue(id))
  ELSE \E i \in DOMAIN indexes : indexes[i] = id

\* C20: on either backend, declaring an index whose identity the store
\* already has an index of raises and leaves the store's indexes as they
\* were.
C20_DuplicateIndex ==
  [][\A id \in IndexIds :
       (DefineIndex(id) /\ HasIndex(id))
       => /\ Raised(lastCall')
          /\ UNCHANGED <<indexes, memIndex>>]_vars

\* On postgres the same index was declared twice at startup: the second
\* declaration returned and the store lists the index twice.
C20_Witness ==
  /\ backingStore = "PostgresStore"
  /\ currentPersona = Undefined
  /\ lastCall = Call("new store.Index", Ok)
  /\ indexes = <<toIndexId, toIndexId>>

(***************************************************************************)
(* Secrets read in the processes of a program that has a persona of every  *)
(* host: each process is started under one persona, with the secrets'      *)
(* environment variables set or not.                                       *)
(***************************************************************************)
appWeb == <<"app", "web">>
appDb == <<"app", "db">>
appKey == <<"app", "key">>

\* The personas the program declares at startup.
SecretPersonas ==
  <<PersonaDecl(appA, "node", "resolves", Undefined),
    PersonaDecl(appB, "cli", "returns", Undefined),
    PersonaDecl(appC, "cli-command", "returns", Undefined),
    PersonaDecl(appWeb, "browser", "returns", Undefined),
    PersonaDecl(appDb, "none", "returns", Undefined)>>

RECURSIVE DeclarePersonas(_, _)
DeclarePersonas(R, decls) ==
  IF decls = <<>> THEN R
  ELSE DeclarePersonas(
         NewPersonaStep(R, Head(decls).id, Head(decls).host, Head(decls).entryPoint,
                        Head(decls).keyOpt).regs,
         Tail(decls))

\* The secrets the program declares at startup.
SecretDecls == <<[id |-> appKey, kind |-> "const"], [id |-> appA, kind |-> "port"]>>

SecretRegs == DeclareSecrets(DeclarePersonas(InitRegs, SecretPersonas), SecretDecls)

SecretEnvValues ==
  {Undefined, buildPersona.environmentVariableValue}
    \cup {KeyOf(SecretPersonas[i]) : i \in DOMAIN SecretPersonas}

\* process.env of the process: no secret, one secret, or both.
ProcessEnvs ==
  {<<>>,
   <<<<idToSafeName(appKey), JSONStringify(constSecretValue)>>>>,
   <<<<idToSafeName(appKey), JSONStringify(constSecretValue)>>,
     <<idToSafeName(appA), JSONStringify([num |-> START_OF_PORT_RANGE])>>>>}

InitSecretProgram ==
  /\ \E env \in SecretEnvValues : StartedProcess(env, SecretRegs)
  /\ InitStore
  /\ InitRuntime
  /\ diskFiles = NoContents
  /\ storeContents = NoContents
  /\ manifest = None
  /\ processEnv \in ProcessEnvs
  /\ buildValues = <<>>
  /\ lazyCalls = <<>>

NextSecret ==
  \/ RunPersona(<<>>)
  \/ \E key \in pending : SettleEntryPoint(key)
  \/ InProcessResume
  \/ \E i \in DOMAIN SecretDecls : SecretGet(i)

SpecSecret == InitSecretProgram /\ [][NextSecret]_vars

\* The host of the persona the process runs as.
CurrentHost == PersonaAt(registeredPersonas, currentPersona).host

\* C21: Secret.get raises at startup; under the build persona it gives what
\* the build-time computation of the secret gives; under a 'node', 'cli' or
\* 'cli-command' persona it returns the parsed JSON text of the secret's
\* environment variable and raises when the variable is not set; under a
\* 'browser' or 'none' persona it raises.
C21_SecretGet ==
  [][\A i \in DOMAIN SecretDecls :
       SecretGet(i) =>
         IF currentPersona = Undefined THEN Raised(lastCall')
         ELSE IF CurrentHost = "build"
         THEN With(SecretBuildValue(BuildState, currentPersona, secrets[i]), LAMBDA r :
                /\ lastCall'.outcome = r.outcome
                /\ lastCall'.ret = r.ret)
         ELSE IF CurrentHost \in {"node", "cli", "cli-command"}
         THEN IF MapHas(processEnv, secrets[i].name)
              THEN /\ lastCall'.outcome = Ok
                   /\ lastCall'.ret = Some(JSONParse(MapGet(processEnv, secrets[i].name)))
              ELSE Raised(lastCall')
         ELSE Raised(lastCall')]_vars

\* Under the 'browser' persona, with the secret's variable set, Secret.get
\* raised.
C21_Witness ==
  /\ currentPersona = idToSafeName(appWeb)
  /\ MapHas(processEnv, idToSafeName(appKey))
  /\ lastCall.op = "Secret.get"
  /\ lastCall.arg = <<idToSafeName(appKey)>>
  /\ Raised(lastCall)

\* The process runs as a persona under which Secret.get reads process.env.
AtRuntimeHost ==
  currentPersona # Undefined /\ CurrentHost \in {"node", "cli", "cli-command"}

\* C22: under a runtime persona, Secret.get of a secret whose environment
\* variable is not set raises an error that names the variable: it is not
\* the error the same call raises for a missing variable of another name.
C22_NamesMissingVariable ==
  [][\A i \in DOMAIN SecretDecls :
       (SecretGet(i) /\ AtRuntimeHost /\ ~MapHas(processEnv, secrets[i].name)) =>
         /\ Raised(lastCall')
         /\ \A j \in DOMAIN secrets :
              secrets[j].name # secrets[i].name =>
                Secret_get(BuildState, registeredPersonas, currentPersona, secrets[j],
                           <<>>).outcome # lastCall'.outcome]_vars

\* Under the 'node' persona, with no variable set, Secret.get of the port
\* raised the error of unexpected().
C22_Witness ==
  /\ currentPersona = idToSafeName(appA)
  /\ processEnv = <<>>
  /\ lastCall.op = "Secret.get"
  /\ lastCall.arg = <<idToSafeName(appA)>>
  /\ lastCall.outcome = unexpected

(***************************************************************************)
(* The relational backend when a statement of a transaction may fail.      *)
(***************************************************************************)
\* The statement numbers at which a fault may be injected (0: none).
MaxFailAt == 3

\* A set, del or modify call on postgres, its statements given by `queries`.
StoreTx(op, key, arg, queries, failAt, ret) ==
  /\ backingStore = "PostgresStore"
  /\ Quiet
  /\ With(IF RuntimeErr # Ok THEN PgState(pgPrimary, pgIndex, RuntimeErr)
          ELSE pool_tx(pgPrimary, pgIndex, queries, failAt), LAMBDA r :
       /\ pgPrimary' = r.primary
       /\ pgIndex' = r.index
       /\ cursor' = IF RuntimeErr = Ok
                    THEN CursorAfter(key, memData, r.primary, r.outcome) ELSE cursor
       /\ lastCall' = CallRet(op, <<key, arg>>, r.outcome,
                              IF r.outcome = Ok THEN ret ELSE <<>>))
  /\ tx' = IF RuntimeErr = Ok THEN Disturb(key) ELSE tx
  /\ UNCHANGED <<personaState, declVars, buildVars, runtimeVars, declCount>>
  /\ UNCHANGED <<backingStore, indexes, memData, memIndex>>

StoreSetTx(key, value, failAt) ==
  StoreTx("set", key, Some(value), SetQueries(indexes, key, value), failAt, <<>>)

StoreDelTx(key, failAt) ==
  StoreTx("del", key, None, DelQueries(indexes, key), failAt, <<>>)

\* modify by a single caller: SELECT ... FOR UPDATE, fn and the batch in one
\* transaction.
StoreModifyTx(key, fn, failAt) ==
  With(Apply(fn, PostgresStore_get(pgPrimary, key)), LAMBDA newValue :
    StoreTx("modify", key, fn, ModifyQueries(indexes, key, newValue), failAt, newValue))

NextTx ==
  \/ NewPersona(appA, "node", "returns", Undefined)
  \/ NewStore(storeId)
  \/ \E id \in IndexIds : DefineIndex(id)
  \/ RunPersona(<<>>)
  \/ \E key \in Keys, value \in StoreValues, failAt \in 0..MaxFailAt :
       StoreSetTx(key, value, failAt)
  \/ \E key \in Keys, failAt \in 0..MaxFailAt : StoreDelTx(key, failAt)
  \/ \E fn \in ModifyFns, failAt \in 0..MaxFailAt : StoreModifyTx("key1", fn, failAt)

\* A process started under PERSONA, so that its store is on postgres.
InitTxProgram ==
  /\ InitProcess(idToSafeName(appA))
  /\ InitStore
  /\ InitRuntime
  /\ InitBuild

SpecTx == InitTxProgram /\ [][NextTx]_vars

\* The call raised and the tables are as they were before it.
RolledBack(err) ==
  /\ lastCall'.outcome = err
  /\ UNCHANGED <<pgPrimary, pgIndex>>

\* What the statements of a call come to when they are run in order.
BatchOf(queries, failAt) == Batch(PgState(pgPrimary, pgIndex, Ok), queries, 1, failAt)

C24_Snapshot ==
  (InMemory /\ cursor.pc = "done") => Range(cursor.yielded) = cursor.atStart

\* C24: the in-memory allKeys walks the live key set: each step yields one
\* key, a key present at that moment; the finished enumeration has yielded
\* every key present at the call and not deleted since, and no key that was
\* neither present at the call nor written since.
C24_LiveKeys ==
  /\ [][(AllKeysNext /\ InMemory) =>
         /\ Len(lastCall'.ret) <= 1
         /\ \A k \in Range(lastCall'.ret) : MapHas(memData, k)]_vars
  /\ []((InMemory /\ cursor.pc = "done") =>
          /\ (cursor.atStart \ cursor.deleted) \subseteq Range(cursor.yielded)
          /\ cursor.writes = 0 => Range(cursor.yielded) \subseteq cursor.atStart)

\* An in-memory enumeration started on one key; a second key was set and the
\* first deleted while it ran, and it yielded the second key only.
C24_Witness ==
  /\ InMemory
  /\ cursor.pc = "done"
  /\ Cardinality(cursor.atStart) = 1
  /\ cursor.deleted = cursor.atStart
  /\ Len(cursor.yielded) = 1
  /\ cursor.yielded[1] \notin cursor.atStart

(***************************************************************************)
(* PostgresStore.createPool: the retry loop that connects to the database. *)
(* Times are in milliseconds.                                              *)
(***************************************************************************)
maxWaitTime == 10000
baseDelay == 100

RECURSIVE Pow2(_)
Pow2(n) == IF n = 0 THEN 1 ELSE 2 * Pow2(n - 1)

\* Math.pow(2, attempt + Math.random()) * baseDelay, for the least random
\* number and for one close to 1.
Delays(attempt) ==
  {baseDelay * Pow2(attempt), baseDelay * Pow2(attempt + 1) - 1}

\* How long an attempt to connect and seed takes: refused at once, or after a
\* time-out of the network.
AttemptTimes == {0, 3000}

connRefused == "Error: connect ECONNREFUSED"
startingUp == "error: the database system is starting up"

\* What an attempt comes to: pgp(...) and seedDatabase succeed, the connection
\* is refused, or a statement of seedDatabase fails (it rolls back and
\* rethrows).
AttemptOutcomes == {Ok, connRefused, startingUp}

\* The catch block of the loop, `now` milliseconds after startTime.
createPool_catch(p, err, now, delay) ==
  IF now > maxWaitTime
  THEN [p EXCEPT !.pc = "failed", !.elapsed = now, !.err = err]
  ELSE [p EXCEPT !.pc = "sleeping", !.elapsed = now, !.err = err, !.delay = delay]

\* getPool() on a store without a pool: createPool() starts.
CreatePool ==
  /\ backingStore = "PostgresStore"
  /\ RuntimeErr = Ok
  /\ pool.pc = "idle"
  /\ pool' = [IdlePool EXCEPT !.pc = "trying"]
  /\ lastCall' = Call("createPool", Ok)
  /\ UNCHANGED <<personaState, declVars, storeVars, buildVars, declCount>>
  /\ UNCHANGED <<handlers, teardownRun, argv, commandEntry, exitCode, idVars, sideVars>>

\* One pass of the try block: pgp(...) and seedDatabase(pool), which took
\* `took` milliseconds and came to `outcome`.
ConnectAttempt(outcome, took, delay) ==
  /\ pool.pc = "trying"
  /\ delay \in Delays(pool.attempt)
  /\ pool' = IF outcome = Ok
             THEN [pool EXCEPT !.pc = "ready", !.elapsed = @ + took]
             ELSE createPool_catch(pool, outcome, pool.elapsed + took, delay)
  /\ lastCall' = CallRet("createPool.attempt", <<pool.attempt>>,
                         IF pool'.pc = "failed" THEN outcome ELSE Ok,
                         IF pool'.pc = "sleeping" THEN <<delay>> ELSE <<>>)
  /\ UNCHANGED <<personaState, declVars, storeVars, buildVars, declCount>>
  /\ UNCHANGED <<handlers, teardownRun, argv, commandEntry, exitCode, idVars, sideVars>>

\* The timer of the backoff fires: attempt++ and the loop goes round.
BackoffElapsed ==
  /\ pool.pc = "sleeping"
  /\ pool' = [pool EXCEPT !.pc = "trying", !.attempt = @ + 1,
                          !.elapsed = @ + pool.delay,
                          !.waited = @ + pool.delay, !.delay = 0]
  /\ lastCall' = Call("createPool.retry", Ok)
  /\ UNCHANGED <<personaState, declVars, storeVars, buildVars, declCount>>
  /\ UNCHANGED <<handlers, teardownRun, argv, commandEntry, exitCode, idVars, sideVars>>

NextPool ==
  \/ NewPersona(appA, "node", "returns", Undefined)
  \/ NewStore(storeId)
  \/ RunPersona(<<>>)
  \/ CreatePool
  \/ \E outcome \in AttemptOutcomes, took \in AttemptTimes,
        delay \in Delays(pool.attempt) : ConnectAttempt(outcome, took, delay)
  \/ BackoffElapsed

\* A process started under PERSONA, so that its store is on postgres.
InitPoolProgram ==
  /\ InitProcess(idToSafeName(appA))
  /\ InitStore
  /\ InitRuntime
  /\ InitBuild

SpecPool == InitPoolProgram /\ [][NextPool]_vars

\* C25 as stated, its bound on the waiting: the time createPool has spent
\* waiting between attempts stays within the budget.
C25_WaitWithinBudget == pool.waited <= maxWaitTime

\* Every attempt was refused at once and createPool raised the last error,
\* having waited longer than the budget.
C25_Witness ==
  /\ pool.pc = "failed"
  /\ pool.err = connRefused
  /\ pool.elapsed = pool.waited
  /\ pool.waited > maxWaitTime

\* Besides, createPool retries after every failure that comes while
\* no more than the budget has elapsed, waiting baseDelay * 2^(attempt + r);
\* it raises only the error of an attempt that failed after the budget, and
\* it ends with a pool only after an attempt that succeeded.
createPool_RetryPolicy ==
  [][\A outcome \in AttemptOutcomes, took \in AttemptTimes,
       delay \in Delays(pool.attempt) :
       ConnectAttempt(outcome, took, delay) =>
         /\ pool'.pc = "ready" <=> outcome = Ok
         /\ pool'.pc = "failed" <=>
              (outcome # Ok /\ pool.elapsed + took > maxWaitTime)
         /\ pool'.pc = "failed" => lastCall'.outcome = outcome
         /\ pool'.pc = "sleeping" =>
              /\ baseDelay * Pow2(pool.attempt) <= pool'.delay
              /\ pool'.delay < baseDelay * Pow2(pool.attempt + 1)]_vars

\* createPool comes to an end.
createPool_Terminates == (pool.pc = "trying") ~> (pool.pc \in {"ready", "failed"})

FairSpecPool ==
  /\ SpecPool
  /\ WF_vars(BackoffElapsed)
  /\ WF_vars(\E outcome \in AttemptOutcomes, took \in AttemptTimes,
                delay \in Delays(pool.attempt) : ConnectAttempt(outcome, took, delay))

(***************************************************************************)
(* teardown.ts: the handlers run at the end of a command.                  *)
(***************************************************************************)
MaxHandlers == 3

\* What a handler does when it is called.
HandlerKinds == {"returns", "resolves", "rejects", "throws"}

handlerFailed == "Error: teardown handler failed"

\* handlers.map(handler => Promise.resolve(handler()).catch(console.error)):
\* the handlers are called in order; a handler that throws ends the map.
RECURSIVE teardown_map(_, _, _)
teardown_map(hs, i, called) ==
  IF i > Len(hs) THEN [invoked |-> called, outcome |-> Ok]
  ELSE IF hs[i] = "throws"
       THEN [invoked |-> Append(called, i), outcome |-> handlerFailed]
       ELSE teardown_map(hs, i + 1, Append(called, i))

\* registerTeardownHandler(handler)
RegisterTeardownHandler(kind) ==
  /\ Len(handlers) < MaxHandlers
  /\ handlers' = Append(handlers, kind)
  /\ lastCall' = Call("registerTeardownHandler", Ok)
  /\ UNCHANGED <<personaState, declVars, storeVars, buildVars, declCount>>
  /\ UNCHANGED <<pool, teardownRun, argv, commandEntry, exitCode, idVars, sideVars>>

\* teardown(), up to its await: the promises of the handlers that were
\* called are pending; a throw out of the map rejects teardown()'s promise.
teardown(hs) ==
  With(teardown_map(hs, 1, <<>>), LAMBDA m :
    [pc |-> IF m.outcome # Ok THEN "rejected" ELSE "awaiting",
     atCall |-> Len(hs),
     invoked |-> m.invoked,
     pending |-> {i \in Range(m.invoked) : hs[i] # "throws"},
     logged |-> 0,
     outcome |-> m.outcome])

\* await teardown()
Teardown ==
  /\ teardownRun.pc = "idle"
  /\ teardownRun' = teardown(handlers)
  /\ lastCall' = Call("teardown", teardownRun'.outcome)
  /\ UNCHANGED <<personaState, declVars, storeVars, buildVars, declCount>>
  /\ UNCHANGED <<pool, handlers, argv, commandEntry, exitCode, idVars, sideVars>>

\* The promise of the i-th handler settles: .catch(console.error) logs a
\* rejection.  When the last one has settled Promise.all resolves.
TeardownSettle(i) ==
  /\ i \in teardownRun.pending
  /\ teardownRun' =
       [teardownRun EXCEPT
          !.pending = @ \ {i},
          !.logged = IF handlers[i] = "rejects" THEN @ + 1 ELSE @,
          !.pc = IF @ = "awaiting" /\ teardownRun.pending = {i}
                 THEN "done" ELSE @]
  /\ lastCall' = Call("teardown.settle", Ok)
  /\ UNCHANGED <<personaState, declVars, storeVars, buildVars, declCount>>
  /\ UNCHANGED <<pool, handlers, argv, commandEntry, exitCode, idVars, sideVars>>

\* teardown() of no handler, or once nothing is pending: the await returns.
TeardownReturn ==
  /\ teardownRun.pc = "awaiting"
  /\ teardownRun.pending = {}
  /\ teardownRun' = [teardownRun EXCEPT !.pc = "done"]
  /\ lastCall' = Call("teardown.return", Ok)
  /\ UNCHANGED <<personaState, declVars, storeVars, buildVars, declCount>>
  /\ UNCHANGED <<pool, handlers, argv, commandEntry, exitCode, idVars, sideVars>>

NextTeardown ==
  \/ \E kind \in HandlerKinds : RegisterTeardownHandler(kind)
  \/ Teardown
  \/ \E i \in 1..MaxHandlers : TeardownSettle(i)
  \/ TeardownReturn

InitTeardownProgram ==
  /\ InitProcess(Undefined)
  /\ InitStore
  /\ InitRuntime
  /\ InitBuild

SpecTeardown == InitTeardownProgram /\ [][NextTeardown]_vars

\* The handlers registered when teardown() was called that fail.
FailingHandlers ==
  {i \in 1..teardownRun.atCall : handlers[i] \in {"rejects", "throws"}}

\* C26: teardown() calls every registered handler even when one throws or
\* returns a rejected promise; it does not raise, and once the handlers have
\* settled every failure has been logged.
C26_TeardownRunsAll ==
  teardownRun.pc # "idle" =>
    /\ teardownRun.invoked = [i \in 1..teardownRun.atCall |-> i]
    /\ teardownRun.pc # "rejected"
    /\ teardownRun.outcome = Ok
    /\ teardownRun.pending = {} =>
         teardownRun.logged = Cardinality(FailingHandlers)

\* teardown() with a handler that throws before another handler: its promise
\* is rejected and the other handler was never called.
C26_Witness ==
  /\ teardownRun.pc = "rejected"
  /\ teardownRun.atCall = 2
  /\ handlers[1] = "throws"
  /\ teardownRun.invoked = <<1>>
  /\ teardownRun.logged = 0

\* With handlers that fail by rejecting only, teardown() does as C26 says.
teardown_RejectionsContained ==
  (\A i \in 1..teardownRun.atCall : handlers[i] # "throws") => C26_TeardownRunsAll

(***************************************************************************)
(* cli-command.ts: a process that runs one command, under the 'cli'        *)
(* persona (runCli) or under the command's own persona.                    *)
(***************************************************************************)
\* The commands the program declares at startup.
CliDecls ==
  <<[id |-> appA, commandName |-> "deploy"], [id |-> appB, commandName |-> "status"]>>

RECURSIVE DeclareCommands(_, _)
DeclareCommands(R, decls) ==
  IF decls = <<>> THEN R
  ELSE DeclareCommands(
         NewCliCommandIn(R, Undefined, Head(decls).id, Head(decls).commandName).regs,
         Tail(decls))

CliRegs == DeclareCommands(InitRegs, CliDecls)

\* What the entry point of each declared command does, for each way the two
\* handlers can behave.
CommandEntries ==
  {[i \in DOMAIN CliDecls |->
      [commandName |-> CliDecls[i].commandName,
       persona |-> idToSafeName(CliDecls[i].id),
       entryPoint |-> kinds[i]]] : kinds \in [DOMAIN CliDecls -> HandlerKinds]}

\* process.argv[2]: no command, a declared one, or one that is not declared.
ArgvValues == {None, Some("deploy"), Some("status"), Some("help")}

CliEnvValues ==
  {idToSafeName(rootId("cli"))} \cup {idToSafeName(CliDecls[i].id) : i \in DOMAIN CliDecls}

commandFailed == "Error: command failed"

CommandNamed(entries, name) ==
  SelectSeq(entries, LAMBDA c : c.commandName = name)

\* runCli(), up to the end of its first await: "interactive" without a
\* command, the handler's result for a registered command ("teardown" when
\* it succeeded), "exit" for an unknown one.
runCli(args, entries) ==
  IF args = None THEN "interactive"
  ELSE IF CommandNamed(entries, args[1]) # <<>>
       THEN IF CommandNamed(entries, args[1])[1].entryPoint \in {"throws", "rejects"}
            THEN "rejects" ELSE "teardown"
       ELSE "exit"

\* The entry point of a command's own persona (createRuntimeWrapper).
commandPersona(entries, key) ==
  IF SelectSeq(entries, LAMBDA c : c.persona = key)[1].entryPoint \in {"throws", "rejects"}
  THEN "rejects" ELSE "teardown"

\* What the entry point of the running persona comes to.
CliOutcome ==
  IF PersonaAt(registeredPersonas, currentPersona).host = "cli"
  THEN runCli(argv, commandEntry)
  ELSE commandPersona(commandEntry, currentPersona)

\* The command's handler has settled (or the terminal was closed): the entry
\* point goes on to teardown(), or its promise is rejected and runPersona's
\* .catch(console.error) logs the error, or it calls process.exit(1) after
\* two lines on console.error.
CliSettle ==
  /\ currentPersona \in pending
  /\ exitCode = None
  /\ teardownRun.pc = "idle"
  /\ pending' = IF CliOutcome = "teardown" THEN pending ELSE pending \ {currentPersona}
  /\ logged' = CASE CliOutcome = "rejects" -> logged + 1
                  [] CliOutcome = "exit" -> logged + 2
                  [] OTHER -> logged
  /\ exitCode' = IF CliOutcome = "exit" THEN Some(1) ELSE exitCode
  /\ teardownRun' = IF CliOutcome = "teardown" THEN teardown(handlers) ELSE teardownRun
  /\ lastCall' = Call("entryPoint",
                      IF CliOutcome = "rejects" THEN commandFailed ELSE Ok)
  /\ UNCHANGED <<envPERSONA, registeredPersonas, currentPersona, invoked, ipState>>
  /\ UNCHANGED <<declVars, storeVars, buildVars, declCount>>
  /\ UNCHANGED <<pool, handlers, argv, commandEntry, idVars, sideVars>>

\* `await teardown()` returns: the entry point's promise resolves.
CliReturn ==
  /\ currentPersona \in pending
  /\ exitCode = None
  /\ teardownRun.pc = "done"
  /\ pending' = pending \ {currentPersona}
  /\ lastCall' = Call("entryPoint", Ok)
  /\ UNCHANGED <<envPERSONA, registeredPersonas, currentPersona, invoked, ipState,
                 logged>>
  /\ UNCHANGED <<declVars, storeVars, buildVars, declCount, runtimeVars>>

\* Nothing is left to run: node exits with process.exitCode, which nothing
\* in the library sets.
ProcessExit ==
  /\ currentPersona # Undefined
  /\ pending = {}
  /\ teardownRun.pending = {}
  /\ exitCode = None
  /\ exitCode' = Some(0)
  /\ lastCall' = Call("exit", Ok)
  /\ UNCHANGED <<personaState, declVars, storeVars, buildVars, declCount>>
  /\ UNCHANGED <<pool, handlers, teardownRun, argv, commandEntry, idVars, sideVars>>

NextCli ==
  \/ RunPersona(<<>>)
  \/ CliSettle
  \/ \E i \in 1..MaxHandlers : TeardownSettle(i)
  \/ TeardownReturn
  \/ CliReturn
  \/ ProcessExit

\* A process started from the command line under the persona of the CLI or
\* of one command, its commands declared.
InitCliProgram ==
  /\ \E env \in CliEnvValues : StartedProcess(env, CliRegs)
  /\ InitStore
  /\ InitBuild
  /\ pool = IdlePool
  /\ handlers \in {<<>>, <<"resolves">>}
  /\ teardownRun = IdleTeardown
  /\ argv \in ArgvValues
  /\ commandEntry \in CommandEntries
  /\ exitCode = None
  /\ InitIds

SpecCli == InitCliProgram /\ [][NextCli]_vars

\* The process runs a single command and the handler of that command raises.
SingleCommandRaises ==
  /\ currentPersona # Undefined
  /\ \/ /\ PersonaAt(registeredPersonas, currentPersona).host = "cli"
        /\ argv # None
        /\ CommandNamed(commandEntry, argv[1]) # <<>>
     \/ PersonaAt(registeredPersonas, currentPersona).host = "cli-command"
  /\ CliOutcome = "rejects"

\* C27: when the process runs a single command whose handler raises, the
\* error is logged and the process exits with a status other than zero.
C27_NonZeroExit ==
  (SingleCommandRaises /\ exitCode # None) => (logged >= 1 /\ exitCode # Some(0))

\* `cli deploy` with a handler that throws: the error was logged once and
\* the process exited with status 0.
C27_Witness ==
  /\ SingleCommandRaises
  /\ PersonaAt(registeredPersonas, currentPersona).host = "cli"
  /\ argv = Some("deploy")
  /\ commandEntry[1].entryPoint = "throws"
  /\ logged = 1
  /\ exitCode = Some(0)

\* Besides, the error of a command is logged before the process exits.
runCli_ErrorLogged ==
  (SingleCommandRaises /\ exitCode # None) => logged = 1

(***************************************************************************)
(* id.ts, character by character.  A string is the sequence of its         *)
(* characters; an ID is [value |-> its value string].                      *)
(***************************************************************************)
Digits == <<"0", "1", "2", "3", "4", "5", "6", "7", "8", "9">>

IsDigit(c) == \E i \in DOMAIN Digits : Digits[i] = c
DigitValue(c) == (CHOOSE i \in DOMAIN Digits : Digits[i] = c) - 1

\* Number(s) of a run of digits.
RECURSIVE NumberOf(_)
NumberOf(s) ==
  IF s = <<>> THEN 0
  ELSE 10 * NumberOf(SubSeq(s, 1, Len(s) - 1)) + DigitValue(s[Len(s)])

\* String(n) of a natural number.
RECURSIVE NumberText(_)
NumberText(n) ==
  IF n < 10 THEN <<Digits[n + 1]>>
  ELSE NumberText(n \div 10) \o <<Digits[(n % 10) + 1]>>

\* The character codes of the characters of the model.
CharCodes ==
  <<<<".", 46>>, <<"[", 91>>, <<"]", 93>>, <<"-", 45>>, <<"_", 95>>, <<"/", 47>>,
    <<"a", 97>>, <<"b", 98>>, <<"4", 52>>, <<"6", 54>>>>

charCodeAt(c) == MapGet(CharCodes, c)

\* String.fromCharCode(n); "?" stands for every character outside the model.
fromCharCode(n) ==
  IF \E i \in DOMAIN CharCodes : CharCodes[i][2] = n
  THEN CharCodes[CHOOSE i \in DOMAIN CharCodes : CharCodes[i][2] = n][1]
  ELSE "?"

\* encodeIdPart that escapes the period only.
RECURSIVE encodeIdPart_PeriodOnly(_)
encodeIdPart_PeriodOnly(part) ==
  IF part = <<>> THEN <<>>
  ELSE (IF Head(part) = "."
        THEN <<"[">> \o NumberText(charCodeAt(Head(part))) \o <<"]">>
        ELSE <<Head(part)>>) \o encodeIdPart_PeriodOnly(Tail(part))

\* part.replace(/[.\[\]]/g, (char) => `[${char.charCodeAt(0)}]`)
RECURSIVE encodeIdPart(_)
encodeIdPart(part) ==
  IF part = <<>> THEN <<>>
  ELSE (IF Head(part) \in {".", "[", "]"}
        THEN <<"[">> \o NumberText(charCodeAt(Head(part))) \o <<"]">>
        ELSE <<Head(part)>>) \o encodeIdPart(Tail(part))

\* The length of the run of digits at the head of s.
RECURSIVE DigitRun(_)
DigitRun(s) ==
  IF s # <<>> /\ IsDigit(Head(s)) THEN 1 + DigitRun(Tail(s)) ELSE 0

\* s.replace(/\[(\d+)\]/g, (_, charCode) => String.fromCharCode(Number(charCode)))
RECURSIVE decodeIdPart(_)
decodeIdPart(s) ==
  IF s = <<>> THEN <<>>
  ELSE With(DigitRun(Tail(s)), LAMBDA n :
         IF /\ Head(s) = "["
            /\ n >= 1
            /\ Len(s) >= n + 2
            /\ s[n + 2] = "]"
         THEN <<fromCharCode(NumberOf(SubSeq(s, 2, n + 1)))>>
                \o decodeIdPart(SubSeq(s, n + 3, Len(s)))
         ELSE <<Head(s)>> \o decodeIdPart(Tail(s)))

\* s.split(sep) for a separator of one character.
RECURSIVE Split(_, _)
Split(s, sep) ==
  IF \A i \in DOMAIN s : s[i] # sep THEN <<s>>
  ELSE With(CHOOSE i \in DOMAIN s : s[i] = sep /\ \A j \in 1..(i - 1) : s[j] # sep,
            LAMBDA i : <<SubSeq(s, 1, i - 1)>> \o Split(SubSeq(s, i + 1, Len(s)), sep))

createID(value) == [value |-> value]

\* rootId(name)
ID_rootId(name) == createID(encodeIdPart(name))

\* id.child(suffix)
ID_child(id, suffix) == createID(id.value \o <<".">> \o encodeIdPart(suffix))

\* id.parts
ID_parts(id) ==
  With(Split(id.value, "."), LAMBDA ps : [i \in DOMAIN ps |-> decodeIdPart(ps[i])])

\* rootId(segs[1]).child(segs[2])...
RECURSIVE ID_of(_)
ID_of(segs) ==
  IF Len(segs) = 1 THEN ID_rootId(segs[1])
  ELSE ID_child(ID_of(SubSeq(segs, 1, Len(segs) - 1)), segs[Len(segs)])

\* Segments with and without the characters of the encoding.
Segments ==
  {<<>>, <<"a">>, <<"b">>, <<".">>, <<"a", ".", "b">>, <<"[", "4", "6", "]">>,
   <<"[">>, <<"]">>, <<"[", "9", "1", "]", "4", "6", "[", "9", "3", "]">>,
   <<"4", "6">>}

MaxSegs == 2

SegmentSeqs == UNION {[1..n -> Segments] : n \in 1..MaxSegs}

\* The program builds the identities of segsA and of segsB.
IdBuild ==
  /\ segsA # <<>>
  /\ segsB # <<>>
  /\ idOut' = [op |-> "build", a |-> ID_of(segsA).value, b |-> ID_of(segsB).value,
               parts |-> ID_parts(ID_of(segsA))]
  /\ lastCall' = Call("rootId", Ok)
  /\ UNCHANGED <<personaState, declVars, storeVars, buildVars, declCount>>
  /\ UNCHANGED <<pool, handlers, teardownRun, argv, commandEntry, exitCode>>
  /\ UNCHANGED <<segsA, segsB, tmpl, sideVars>>

\* [a-zA-Z0-9_] on the characters of the model.
IsWordChar(c) == c \in {"a", "b", "_"} \/ IsDigit(c)

\* The length of the run of characters outside [a-zA-Z0-9_] at the head of s.
RECURSIVE OtherRun(_)
OtherRun(s) ==
  IF s # <<>> /\ ~IsWordChar(Head(s)) THEN 1 + OtherRun(Tail(s)) ELSE 0

\* part.replace(/[^a-zA-Z0-9_]+/g, '_')
RECURSIVE Sanitize(_)
Sanitize(part) ==
  IF part = <<>> THEN <<>>
  ELSE IF IsWordChar(Head(part)) THEN <<Head(part)>> \o Sanitize(Tail(part))
  ELSE <<"_">> \o Sanitize(SubSeq(part, OtherRun(part) + 1, Len(part)))

HexDigits ==
  <<"0", "1", "2", "3", "4", "5", "6", "7", "8", "9", "a", "b", "c", "d", "e", "f">>

\* The MD5 digest of the text 'a'.
md5_a ==
  <<"0", "c", "c", "1", "7", "5", "b", "9", "c", "0", "f", "1", "b", "6", "a", "8",
    "3", "1", "c", "3", "9", "9", "e", "2", "6", "9", "7", "7", "2", "6", "6", "1">>

\* crypto.createHash('md5').update(value).digest('hex'): 32 hexadecimal
\* characters that depend on the value.  The digest of 'a' is the real one;
\* for the other values the characters are drawn from the length.
md5_hex(value) ==
  IF value = <<"a">> THEN md5_a
  ELSE [i \in 1..32 |-> HexDigits[((Len(value) * 7 + i * 3) % 16) + 1]]

\* s.substring(0, n)
Substring(s, n) == IF n <= 0 THEN <<>> ELSE SubSeq(s, 1, IF n < Len(s) THEN n ELSE Len(s))

totalLength == 40
minHashLength == 8
maxHashLength == 16

\* The loop of idToSafeName: the parts are taken from the last one for as
\* long as the part is not empty and fits in `room` characters.
RECURSIVE SafeNameStr(_, _, _)
SafeNameStr(parts, nameStr, room) ==
  IF parts = <<>> THEN nameStr
  ELSE With(parts[Len(parts)], LAMBDA part :
         IF part # <<>> /\ Len(nameStr) + Len(part) <= room
         THEN SafeNameStr(SubSeq(parts, 1, Len(parts) - 1),
                          <<"_">> \o Sanitize(part) \o nameStr, room)
         ELSE nameStr)

\* idToSafeName that fills the whole length with parts before it takes the hash.
ID_idToSafeName_PartsFirst(id) ==
  With(SafeNameStr(ID_parts(id), <<>>, totalLength), LAMBDA nameStr :
    Substring(md5_hex(id.value),
              IF totalLength - Len(nameStr) < maxHashLength
              THEN totalLength - Len(nameStr) ELSE maxHashLength) \o nameStr)

\* idToSafeName(id)
ID_idToSafeName(id) ==
  With(SafeNameStr(ID_parts(id), <<>>, totalLength - minHashLength - 1), LAMBDA nameStr :
    Substring(md5_hex(id.value),
              IF totalLength - Len(nameStr) < maxHashLength
              THEN totalLength - Len(nameStr) ELSE maxHashLength) \o nameStr)

\* A string of n characters c.
Rep(c, n) == [i \in 1..n |-> c]

\* Segments short and long, with characters that are replaced.
LongSegments ==
  {Rep("a", 1), Rep("a", 7), Rep("a", 15), Rep("a", 30), Rep("a", 31), Rep("a", 32),
   <<"a", "-", "/", "b", ".", "4">>, Rep("-", 31), <<>>}

MaxLongSegs == 3

LongSegmentSeqs == UNION {[1..n -> LongSegments] : n \in 1..MaxLongSegs}

\* The program takes the safe name of the identity of segsA.
IdSafeName ==
  /\ segsA # <<>>
  /\ idOut' = [op |-> "idToSafeName", a |-> ID_of(segsA).value,
               b |-> ID_idToSafeName(ID_of(segsA)), parts |-> ID_parts(ID_of(segsA))]
  /\ lastCall' = Call("idToSafeName", Ok)
  /\ UNCHANGED <<personaState, declVars, storeVars, buildVars, declCount>>
  /\ UNCHANGED <<pool, handlers, teardownRun, argv, commandEntry, exitCode>>
  /\ UNCHANGED <<segsA, segsB, tmpl, sideVars>>

\* The values a template interpolates.
JSValues ==
  {[t |-> "string", text |-> <<>>], [t |-> "string", text |-> <<"a">>],
   [t |-> "number", n |-> 0], [t |-> "number", n |-> 46],
   [t |-> "boolean", b |-> FALSE], [t |-> "boolean", b |-> TRUE],
   [t |-> "null"], [t |-> "undefined"]}

\* String(v), as a template literal converts the value.
ToText(v) ==
  CASE v.t = "string" -> v.text
    [] v.t = "number" -> NumberText(v.n)
    [] v.t = "boolean" -> IF v.b THEN <<"t", "r", "u", "e">> ELSE <<"f", "a", "l", "s", "e">>
    [] v.t = "null" -> <<"n", "u", "l", "l">>
    [] OTHER -> <<"u", "n", "d", "e", "f", "i", "n", "e", "d">>

\* A value that `||` keeps.
Truthy(v) ==
  CASE v.t = "string" -> v.text # <<>>
    [] v.t = "number" -> v.n # 0
    [] v.t = "boolean" -> v.b
    [] OTHER -> FALSE

\* strings.reduce((acc, str, i) => acc + str + (values[i] || ""), "")
RECURSIVE TaggedSuffix(_, _, _)
TaggedSuffix(strings, values, i) ==
  IF i > Len(strings) THEN <<>>
  ELSE strings[i]
         \o (IF i <= Len(values) /\ Truthy(values[i]) THEN ToText(values[i]) ELSE <<>>)
         \o TaggedSuffix(strings, values, i + 1)

\* What the template literal `...${v}...` of the same strings and values is.
RECURSIVE TemplateLiteral(_, _, _)
TemplateLiteral(strings, values, i) ==
  IF i > Len(strings) THEN <<>>
  ELSE strings[i]
         \o (IF i <= Len(values) THEN ToText(values[i]) ELSE <<>>)
         \o TemplateLiteral(strings, values, i + 1)

\* id`...`: the identity called as a tagged template.
ID_template(id, strings, values) == ID_child(id, TaggedSuffix(strings, values, 1))

MaxValues == 2

TemplateStrings == {<<>>, <<"a">>, <<".">>}

\* The templates of up to MaxValues interpolated values.
Templates ==
  UNION {{[strings |-> ss, values |-> vs] :
            ss \in [1..(n + 1) -> TemplateStrings], vs \in [1..n -> JSValues]} :
         n \in 0..MaxValues}

\* The program calls the identity of segsA as a tagged template and calls
\* child on the template literal.
IdTemplate ==
  /\ segsA # <<>>
  /\ idOut' = [op |-> "template",
               a |-> ID_template(ID_of(segsA), tmpl.strings, tmpl.values).value,
               b |-> ID_child(ID_of(segsA),
                              TemplateLiteral(tmpl.strings, tmpl.values, 1)).value,
               parts |-> ID_parts(ID_template(ID_of(segsA), tmpl.strings, tmpl.values))]
  /\ lastCall' = Call("template", Ok)
  /\ UNCHANGED <<personaState, declVars, storeVars, buildVars, declCount>>
  /\ UNCHANGED <<pool, handlers, teardownRun, argv, commandEntry, exitCode>>
  /\ UNCHANGED <<segsA, segsB, tmpl, sideVars>>

NextId ==
  \/ IdBuild
  \/ IdSafeName
  \/ IdTemplate

\* A program with two identities of short segments, or one of long segments,
\* or one identity and a template.
InitIdProgram ==
  /\ InitProcess(Undefined)
  /\ InitStore
  /\ InitBuild
  /\ pool = IdlePool
  /\ handlers = <<>>
  /\ teardownRun = IdleTeardown
  /\ InitCli
  /\ InitSide
  /\ idOut = NoIdOut
  /\ \/ segsA \in SegmentSeqs /\ segsB \in SegmentSeqs /\ tmpl = NoTemplate
     \/ segsA \in LongSegmentSeqs /\ segsB = segsA /\ tmpl = NoTemplate
     \/ segsA \in {<<<<"a">>>>, <<<<"a">>, <<".">>>>} /\ segsB = segsA /\ tmpl \in Templates

SpecId == InitIdProgram /\ [][NextId]_vars

\* C28: the identity built from a sequence of segments with rootId and child
\* has these segments for its parts, whatever characters they hold, and two
\* identities have the same value exactly when their segments are the same.
C28_PartsRoundTrip ==
  idOut.op = "build" =>
    /\ idOut.parts = segsA
    /\ idOut.a = idOut.b <=> segsA = segsB

\* The identities of 'a.b' and of 'a', 'b' were built: the first has the one
\* part 'a.b' and their values differ.
C28_Witness ==
  /\ idOut.op = "build"
  /\ segsA = <<<<"a", ".", "b">>>>
  /\ segsB = <<<<"a">>, <<"b">>>>
  /\ idOut.parts = <<<<"a", ".", "b">>>>
  /\ idOut.a # idOut.b

\* The last k parts, sanitized, each behind an underscore.
RECURSIVE SanitizedSuffix(_, _)
SanitizedSuffix(parts, k) ==
  IF k = 0 THEN <<>>
  ELSE SanitizedSuffix(SubSeq(parts, 1, Len(parts) - 1), k - 1)
         \o <<"_">> \o Sanitize(parts[Len(parts)])

IsHexDigit(c) == \E i \in DOMAIN HexDigits : HexDigits[i] = c

\* C29: the safe name of an identity has at most 40 characters, all of them
\* letters, digits or underscores; it is 8 to 16 hexadecimal characters of
\* the hash followed by the last k sanitized segments, for some k.
C29_SafeName ==
  idOut.op = "idToSafeName" =>
    /\ Len(idOut.b) <= totalLength
    /\ \A i \in DOMAIN idOut.b : IsWordChar(idOut.b[i]) \/ IsHexDigit(idOut.b[i])
    /\ \E h \in minHashLength..maxHashLength, k \in 0..Len(segsA) :
         /\ idOut.b = SubSeq(md5_hex(idOut.a), 1, h) \o SanitizedSuffix(segsA, k)
         /\ \A i \in 1..h : IsHexDigit(idOut.b[i])

\* The safe name of an identity of three segments of 30, 31 and 7 letters:
\* the hash and the last segment only, the second one not fitting.
C29_Witness ==
  /\ idOut.op = "idToSafeName"
  /\ segsA = <<Rep("a", 30), Rep("a", 31), Rep("a", 7)>>
  /\ Len(idOut.b) = maxHashLength + 8

\* C30: the identity called as a tagged template is the identity child(s)
\* returns for the string s the template literal evaluates to.
C30_TemplateIsChild ==
  idOut.op = "template" => idOut.a = idOut.b

\* id`a${0}`: the tagged template gave the child 'a', not the child 'a0'.
C30_Witness ==
  /\ idOut.op = "template"
  /\ tmpl = [strings |-> <<<<"a">>, <<>>>>, values |-> <<[t |-> "number", n |-> 0]>>]
  /\ idOut.parts = <<<<"a">>, <<"a">>>>
  /\ idOut.a # idOut.b

\* With interpolated values that `||` keeps, the tagged template is child(s).
template_TruthyIsChild ==
  (idOut.op = "template" /\ \A i \in DOMAIN tmpl.values : Truthy(tmpl.values[i]))
    => idOut.a = idOut.b

(***************************************************************************)
(* The store: modify with a function that returns undefined.               *)
(***************************************************************************)
\* An index of the in-memory store holds a row of `key`.
MemIndexed(index, key) ==
  \E i \in DOMAIN index : \E j \in DOMAIN index[i][2].data :
    MapHas(index[i][2].data[j][2], key)

\* A modify of key1 whose function returns undefined comes to its end.
ModifyDropEnds ==
  \/ InMemory /\ RuntimeErr = Ok /\ StoreModify("c1", "key1", "drop")
  \/ tx["c1"].fn = "drop" /\ StoreModifyCommit("c1")

\* C32: modify(k, fn) with fn returning undefined succeeds and leaves k
\* absent from the primary data and from every index, on both backends.
C32_ModifyDeletes ==
  [][ModifyDropEnds =>
       /\ lastCall'.outcome = Ok
       /\ ~MapHas(memData', "key1")
       /\ ~MemIndexed(memIndex', "key1")
       /\ ~PgHasRow(pgPrimary', "key1")
       /\ ~PgReferenced(pgIndex', "key1")]_vars

\* On postgres, modify of an indexed key1 with a function returning undefined
\* has raised the violation of the foreign key; the row and its index rows
\* are still there.
C32_Witness ==
  /\ ~InMemory
  /\ lastCall.op = "modify"
  /\ lastCall.arg = <<"key1", "drop">>
  /\ lastCall.outcome = "error: violates foreign key constraint"
  /\ PgHasRow(pgPrimary, "key1")
  /\ PgReferenced(pgIndex, "key1")

\* Besides, on postgres the modify succeeds when no index holds a row of the key.
modify_DropUnindexed ==
  [][(~InMemory /\ ModifyDropEnds /\ ~PgReferenced(pgIndex, "key1")) =>
       /\ lastCall'.outcome = Ok
       /\ ~PgHasRow(pgPrimary', "key1")]_vars

(***************************************************************************)
(* The in-memory store: the calls that write.                              *)
(***************************************************************************)
\* C33: in the in-memory store del, set and modify, called at run time,
\* complete without raising.
C33_InMemoryCompletes ==
  (InMemory /\ currentPersona # Undefined /\ lastCall.op \in {"set", "del", "modify"})
    => lastCall.outcome = Ok

\* del of a key whose value gave the index key 'Bob' twice: the second pass
\* over the recorded index keys found the bucket gone, and del raised with
\* the key still stored.
C33_Witness ==
  /\ InMemory
  /\ lastCall.op = "del"
  /\ lastCall.arg = <<"key1">>
  /\ lastCall.outcome = "TypeError: Cannot read properties of undefined"
  /\ MapHas(memData, "key1")
  /\ MapGet(memData, "key1").value = mDup

\* Besides, the calls complete as long as no stored value repeats an index key.
InMemory_CompletesWithoutRepeats ==
  [][(InMemory /\ currentPersona # Undefined
        /\ lastCall'.op \in {"set", "del", "modify"}
        /\ \A i \in DOMAIN memData : memData[i][2].value # mDup)
       => lastCall'.outcome = Ok]_vars

(***************************************************************************)
(* The two backends side by side: the same program runs in a process       *)
(* without PERSONA, whose store is memData and memIndex, and in a process  *)
(* of a persona, whose store is the tables pgPrimary and pgIndex; the same *)
(* calls are made in both, one after the other.                            *)
(***************************************************************************)
TwinCall(op, arg, mem, pg) == [op |-> op, arg |-> arg, mem |-> mem, pg |-> pg]

\* What the rest of the state does during the calls made side by side.
TwinFrame ==
  /\ UNCHANGED <<personaVars, declVars, buildVars, declCount, backingStore, tx, cursor>>
  /\ UNCHANGED <<pool, handlers, teardownRun, argv, commandEntry, exitCode, idVars>>
  /\ UNCHANGED <<txns, poolUse>>

\* new store.Index(id, indexer), at startup, before any call.
TwinDefineIndex(id) ==
  /\ twin.op \in {"none", "new store.Index"}
  /\ ~MapHas(memIndex, IdValue(id))
  /\ With(InMemoryStore_defineIndex(memIndex, Undefined, id), LAMBDA m :
       With(PostgresStore_defineIndex(indexes, pgIndex, Undefined, id), LAMBDA p :
         /\ memIndex' = m.index
         /\ indexes' = p.indexes
         /\ pgIndex' = p.index
         /\ twin' = TwinCall("new store.Index", <<id>>,
                             Call("new store.Index", m.outcome),
                             Call("new store.Index", p.outcome))))
  /\ UNCHANGED <<memData, pgPrimary>>
  /\ TwinFrame

\* A call that writes: the state and the outcome it leaves in each process.
TwinWrite(op, arg, m, p) ==
  /\ memData' = m.data
  /\ memIndex' = m.index
  /\ pgPrimary' = p.primary
  /\ pgIndex' = p.index
  /\ twin' = TwinCall(op, arg, Call(op, m.outcome), Call(op, p.outcome))
  /\ UNCHANGED indexes
  /\ TwinFrame

\* store.set(key, value)
TwinSet(key, value) ==
  TwinWrite("set", <<key, value>>,
            InMemoryStore_set(memData, memIndex, key, value),
            PostgresStore_set(pgPrimary, pgIndex, indexes, key, value))

\* store.del(key)
TwinDel(key) ==
  TwinWrite("del", <<key>>,
            InMemoryStore_del(memData, memIndex, key),
            PostgresStore_del(pgPrimary, pgIndex, indexes, key))

\* store.modify(key, fn), by the only client.
TwinModify(key, fn) ==
  TwinWrite("modify", <<key, fn>>,
            InMemoryStore_modify(memData, memIndex, key, fn),
            PostgresStore_modify_batch(pgPrimary, pgIndex, indexes, key,
                                       Apply(fn, PostgresStore_get(pgPrimary, key))))

\* A call that reads: what it returns in each process.
TwinRead(op, arg, memRet, pgRet) ==
  /\ twin' = TwinCall(op, arg, CallRet(op, arg, Ok, memRet), CallRet(op, arg, Ok, pgRet))
  /\ UNCHANGED <<indexes, memData, memIndex, pgPrimary, pgIndex>>
  /\ TwinFrame

\* store.get(key), store.has(key), the keys of store.allKeys() as a set
TwinGet(key) ==
  TwinRead("get", <<key>>, InMemoryStore_get(memData, key),
           PostgresStore_get(pgPrimary, key))
TwinHas(key) ==
  TwinRead("has", <<key>>, InMemoryStore_has(memData, key),
           PostgresStore_has(pgPrimary, key))
TwinAllKeys ==
  TwinRead("allKeys", <<>>, Range(InMemoryStore_allKeys(memData)),
           {k \in Keys : PgHasRow(pgPrimary, k)})

\* index.get(indexKey, opts)
TwinIndexGet(id, indexKey, opts) ==
  /\ MapHas(memIndex, IdValue(id))
  /\ TwinRead("index.get", <<id, indexKey, opts>>,
              InMemoryStore_index_get(memIndex, id, indexKey, opts),
              PostgresStore_index_get(pgPrimary, pgIndex, id, indexKey, opts))

NextTwin ==
  \/ \E id \in IndexIds : TwinDefineIndex(id)
  \/ \E key \in Keys, value \in StoreValues : TwinSet(key, value)
  \/ \E key \in Keys : TwinDel(key)
  \/ \E fn \in ModifyFns : TwinModify("key1", fn)
  \/ \E key \in Keys : TwinGet(key)
  \/ \E key \in Keys : TwinHas(key)
  \/ TwinAllKeys
  \/ \E id \in IndexIds, opts \in GetOpts : TwinIndexGet(id, "Bob", opts)

InitTwinProgram ==
  /\ InitProcess(Undefined)
  /\ InitStore
  /\ InitRuntime
  /\ InitBuild

SpecTwin == InitTwinProgram /\ [][NextTwin]_vars

\* C31: a call made in both processes succeeds in one exactly when it
\* succeeds in the other, and a get, has, allKeys or index.get returns the
\* same in both.
C31_BackendsAgree ==
  /\ twin.mem.outcome = Ok <=> twin.pg.outcome = Ok
  /\ twin.op \in {"get", "has", "allKeys", "index.get"} => twin.mem.ret = twin.pg.ret

\* index.get('Bob') without options, after set('key1', ...) in both
\* processes: one entry each, with different fields.
C31_Witness ==
  /\ twin.op = "index.get"
  /\ twin.arg[3] = NoOpts
  /\ Len(twin.mem.ret) = 1
  /\ Len(twin.pg.ret) = 1
  /\ twin.mem.ret # twin.pg.ret

\* Besides, the two backends agree as long as no index is declared.
Twin_AgreeWithoutIndexes == (memIndex = <<>>) => C31_BackendsAgree

(***************************************************************************)
(* for await (const key of store.allKeys(opts)) { ... }, with a body that  *)
(* calls set or modify on the key it is given: the key the body is at is   *)
(* the first yielded key not yet written.                                  *)
(***************************************************************************)
\* The enumeration is cut off after this many keys.
MaxYield == 4

\* The loop body has a key to work on.
BodyPending == cursor.pc = "open" /\ cursor.writes < Len(cursor.yielded)

BodyKey == cursor.yielded[cursor.writes + 1]

\* The loop asks for its next key once the body has returned.
ConsumerNext ==
  /\ ~BodyPending
  /\ Quiet
  /\ Len(cursor.yielded) < MaxYield
  /\ AllKeysNext

\* The body: await store.set(key, value)
ConsumerSet(value) ==
  /\ BodyPending
  /\ Quiet
  /\ StoreSet(BodyKey, Some(value))

\* The body: await store.modify(key, fn)
ConsumerModify(fn) ==
  /\ BodyPending
  /\ Quiet
  /\ StoreModify("c1", BodyKey, fn)

NextConsume ==
  \/ NewPersona(appA, "node", "returns", Undefined)
  \/ NewStore(storeId)
  \/ RunPersona(<<>>)
  \/ InProcessResume
  \/ \E key \in Keys : cursor.pc = "idle" /\ StoreSet(key, Some(mOne))
  \/ \E opt \in BatchOpts : AllKeysOpen(opt)
  \/ ConsumerNext
  \/ \E value \in StoreValues : ConsumerSet(value)
  \/ \E fn \in ModifyFns : ConsumerModify(fn)
  \/ StoreModifySelect("c1")
  \/ StoreModifyCommit("c1")

SpecConsume == InitStoreProgram /\ [][NextConsume]_vars

\* C34: an enumeration whose consumer sets or modifies each key it is given
\* before asking for the next yields no key twice (and so ends on a finite
\* store), on both backends.
C34_EachKeyOnce == NoDuplicates(cursor.yielded)

\* In memory, with one key in the store: the loop was given the key, set it,
\* and was given the same key again, and again after the next set.
C34_Witness ==
  /\ InMemory
  /\ cursor.pc = "open"
  /\ Cardinality(cursor.atStart) = 1
  /\ Len(memData) = 1
  /\ Len(cursor.yielded) = MaxYield
  /\ \A i \in DOMAIN cursor.yielded : cursor.yielded[i] \in cursor.atStart

\* Besides, on postgres the loop is given no key twice, and in memory too
\* when the body leaves the keys it is given alone.
Consume_PostgresOnce ==
  (~InMemory \/ cursor.writes = 0) => NoDuplicates(cursor.yielded)

(***************************************************************************)
(* PostgresStore: set(k, v) and del(k) in two transactions at the same     *)
(* time, statement by statement, under the row locks of the database       *)
(* (READ COMMITTED).  pgPrimary and pgIndex hold the rows as the           *)
(* transaction that wrote them last sees them; the rows a transaction has  *)
(* written are locked by it until it commits or rolls back.                *)
(***************************************************************************)
OtherSession(s) == CHOOSE o \in Sessions : o # s

\* The rows of `key` in a table; key is the PRIMARY KEY of the primary table.
RowsOf(primary, index, table, key) ==
  IF table = "primary"
  THEN IF PgHasRow(primary, key) THEN <<CHOOSE r \in primary : r.key = key>> ELSE <<>>
  ELSE SelectSeq(MapGet(index, table), LAMBDA r : r.key = key)

RowLock(table, key, created, before) ==
  [table |-> table, key |-> key, created |-> created, before |-> before]

Holds(s, table, key) ==
  \E i \in DOMAIN txns[s].locks :
    txns[s].locks[i].table = table /\ txns[s].locks[i].key = key

\* The rows were inserted by the open transaction of s: no other sees them.
CreatedBy(s, table, key) ==
  \E i \in DOMAIN txns[s].locks :
    /\ txns[s].locks[i].table = table
    /\ txns[s].locks[i].key = key
    /\ txns[s].locks[i].created

NextQuery(s) == txns[s].queries[txns[s].at]

Sending(s) == txns[s].pc = "running" /\ txns[s].at <= Len(txns[s].queries)

\* The statement s is to run next needs a row that the other session holds:
\* an upsert waits for whoever wrote the key, a DELETE for the rows it can
\* see; an INSERT into an index table waits for nobody.
WaitsFor(s) ==
  /\ Sending(s)
  /\ NextQuery(s).op # "insertIndex"
  /\ Holds(OtherSession(s), NextQuery(s).table, NextQuery(s).key)
  /\ NextQuery(s).op = "upsert"
       \/ ~CreatedBy(OtherSession(s), NextQuery(s).table, NextQuery(s).key)

\* The rows of the locks are put back as they were: ROLLBACK.
RECURSIVE Restore(_, _)
Restore(st, locks) ==
  IF locks = <<>> THEN st
  ELSE With(Restore(st, Tail(locks)), LAMBDA r :
         With(Head(locks), LAMBDA l :
           IF l.table = "primary"
           THEN PgState({x \in r.primary : x.key # l.key} \cup Range(l.before),
                        r.index, r.outcome)
           ELSE PgState(r.primary,
                        MapSet(r.index, l.table,
                               PgDeleteRows(MapGet(r.index, l.table), l.key) \o l.before),
                        r.outcome)))

\* set(key, value) and del(key), lines 277-279 and 303-305: pool.tx begins.
TxBegin(s, key, value) ==
  /\ backingStore # Undefined
  /\ ~InMemory
  /\ RuntimeErr = Ok
  /\ txns[s].pc = "idle"
  /\ txns' = [txns EXCEPT ![s] =
                [IdleSession EXCEPT
                   !.pc = "running",
                   !.queries = IF s = "set" THEN SetQueries(indexes, key, value)
                               ELSE DelQueries(indexes, key)]]
  /\ UNCHANGED <<personaVars, declVars, storeVars, buildVars, declCount>>
  /\ UNCHANGED <<pool, handlers, teardownRun, argv, commandEntry, exitCode, idVars>>
  /\ UNCHANGED <<twin, poolUse>>

\* The next statement of s is sent and has to wait for a row lock.
TxBlock(s) ==
  /\ WaitsFor(s)
  /\ ~txns[s].blocked
  /\ txns' = [txns EXCEPT ![s].blocked = TRUE]
  /\ UNCHANGED <<personaVars, declVars, storeVars, buildVars, declCount>>
  /\ UNCHANGED <<pool, handlers, teardownRun, argv, commandEntry, exitCode, idVars>>
  /\ UNCHANGED <<twin, poolUse>>

\* What the statement q of s does to the tables: a DELETE does not see rows
\* another open transaction inserted, nor, after waiting, the rows that
\* replaced the ones it waited for.
TxExec(s, q) ==
  IF \/ q.op \in {"deleteIndex", "deletePrimary"}
        /\ CreatedBy(OtherSession(s), q.table, q.key)
     \/ q.op = "deleteIndex" /\ txns[s].gone
  THEN PgState(pgPrimary, pgIndex, Ok)
  ELSE ExecQuery(PgState(pgPrimary, pgIndex, Ok), q)

\* The locks of s after its statement q ran: the rows it wrote are its own.
TxLocks(s, q, r) ==
  IF \/ Holds(s, q.table, q.key)
     \/ RowsOf(pgPrimary, pgIndex, q.table, q.key) = RowsOf(r.primary, r.index, q.table, q.key)
  THEN txns[s].locks
  ELSE Append(txns[s].locks,
              RowLock(q.table, q.key,
                      RowsOf(pgPrimary, pgIndex, q.table, q.key) = <<>>,
                      RowsOf(pgPrimary, pgIndex, q.table, q.key)))

\* The next statement of s runs; when it fails the batch rejects and pool.tx
\* rolls back.
TxStep(s) ==
  /\ Sending(s)
  /\ ~WaitsFor(s)
  /\ With(TxExec(s, NextQuery(s)), LAMBDA r :
       IF r.outcome # Ok
       THEN With(Restore(r, txns[s].locks), LAMBDA b :
              /\ pgPrimary' = b.primary
              /\ pgIndex' = b.index
              /\ txns' = [txns EXCEPT ![s] = [@ EXCEPT !.pc = "done", !.locks = <<>>,
                                                       !.blocked = FALSE,
                                                       !.outcome = r.outcome]])
       ELSE /\ pgPrimary' = r.primary
            /\ pgIndex' = r.index
            /\ txns' = [txns EXCEPT ![s] = [@ EXCEPT !.at = @ + 1,
                                                     !.locks = TxLocks(s, NextQuery(s), r),
                                                     !.blocked = FALSE,
                                                     !.gone = FALSE]])
  /\ UNCHANGED <<personaVars, declVars, buildVars, declCount>>
  /\ UNCHANGED <<backingStore, indexes, memData, memIndex, lastCall, tx, cursor>>
  /\ UNCHANGED <<pool, handlers, teardownRun, argv, commandEntry, exitCode, idVars>>
  /\ UNCHANGED <<twin, poolUse>>

\* The batch of s resolved: COMMIT.  A DELETE of the other session that
\* waits for index rows s deleted finds them gone.
TxCommit(s) ==
  /\ txns[s].pc = "running"
  /\ txns[s].at > Len(txns[s].queries)
  /\ txns' = [o \in Sessions |->
                IF o = s THEN [txns[s] EXCEPT !.pc = "done", !.locks = <<>>]
                ELSE IF /\ txns[o].blocked
                        /\ NextQuery(o).op = "deleteIndex"
                        /\ Holds(s, NextQuery(o).table, NextQuery(o).key)
                THEN [txns[o] EXCEPT !.gone = TRUE]
                ELSE txns[o]]
  /\ UNCHANGED <<personaVars, declVars, storeVars, buildVars, declCount>>
  /\ UNCHANGED <<pool, handlers, teardownRun, argv, commandEntry, exitCode, idVars>>
  /\ UNCHANGED <<twin, poolUse>>

\* Each session waits for a row the other holds.
Deadlocked == \A s \in Sessions : txns[s].blocked /\ WaitsFor(s)

\* The database finds the cycle and aborts the transaction of one session:
\* its statement fails with `deadlock detected` and pool.tx rolls back.
DeadlockDetected(victim) ==
  /\ Deadlocked
  /\ With(Restore(PgState(pgPrimary, pgIndex, Ok), txns[victim].locks), LAMBDA b :
       /\ pgPrimary' = b.primary
       /\ pgIndex' = b.index)
  /\ txns' = [txns EXCEPT ![victim] = [@ EXCEPT !.pc = "done", !.locks = <<>>,
                                                !.blocked = FALSE,
                                                !.outcome = "error: deadlock detected"]]
  /\ UNCHANGED <<personaVars, declVars, buildVars, declCount>>
  /\ UNCHANGED <<backingStore, indexes, memData, memIndex, lastCall, tx, cursor>>
  /\ UNCHANGED <<pool, handlers, teardownRun, argv, commandEntry, exitCode, idVars>>
  /\ UNCHANGED <<twin, poolUse>>

\* No transaction is open.
NoSession == \A s \in Sessions : txns[s].pc = "idle"

NextLock ==
  \/ NoSession /\ NewPersona(appA, "node", "returns", Undefined)
  \/ NoSession /\ NewStore(storeId)
  \/ \E id \in IndexIds : NoSession /\ DefineIndex(id)
  \/ NoSession /\ RunPersona(<<>>)
  \/ \E value \in StoreValues : NoSession /\ StoreSetTx("key1", value, 0)
  \/ \E s \in Sessions, value \in StoreValues : TxBegin(s, "key1", value)
  \/ \E s \in Sessions : TxBlock(s)
  \/ \E s \in Sessions : TxStep(s)
  \/ \E s \in Sessions : TxCommit(s)
  \/ \E s \in Sessions : DeadlockDetected(s)

SpecLock == InitTxProgram /\ [][NextLock]_vars

\* The two transactions started on a key that had index rows.
OnIndexedKey == PgHasRow(pgPrimary, "key1") /\ PgReferenced(pgIndex, "key1")

\* C35: the set and the del never wait for each other, and each commits.
C35_BothCommit ==
  /\ ~Deadlocked
  /\ \A s \in Sessions : txns[s].outcome = Ok

\* The set holds the primary row and waits for the index rows, which the del
\* holds while it waits for the primary row, on a key that has index rows.
C35_Witness ==
  /\ Deadlocked
  /\ Holds("set", "primary", "key1")
  /\ NextQuery("set").op = "deleteIndex"
  /\ NextQuery("del").op = "deletePrimary"
  /\ \E i \in DOMAIN txns["del"].locks :
       txns["del"].locks[i].table # "primary" /\ txns["del"].locks[i].before # <<>>

\* Besides, on a store without index the two transactions always commit.
Lock_NoIndexNoDeadlock ==
  (indexes = <<>>) => C35_BothCommit

(***************************************************************************)
(* PostgresStore.getOrCreatePool: the operations of one store await the    *)
(* promise kept in this.postgresPool.  pool.pc = "idle" is the field still *)
(* undefined; poolUse.starts counts the calls of createPool, and           *)
(* poolUse.users has, for each operation, the state of the promise when it *)
(* called getOrCreatePool and what its await came to.                      *)
(***************************************************************************)
\* The operations issued on the store.
MaxPoolCalls == 3

PoolUser(at, got) == [at |-> at, got |-> got]

\* getOrCreatePool, were it to keep only a promise that has not rejected.
getOrCreatePool_RetryFailed(p, use) ==
  IF p.pc \in {"idle", "failed"}
  THEN [pool |-> [IdlePool EXCEPT !.pc = "trying"],
        use |-> [starts |-> use.starts + 1,
                 users |-> Append(use.users, PoolUser(p.pc, "awaiting"))]]
  ELSE [pool |-> p,
        use |-> [use EXCEPT !.users = Append(@, PoolUser(p.pc, "awaiting"))]]

\* getOrCreatePool, after its assertRuntime()
getOrCreatePool(p, use) ==
  IF p.pc = "idle"
  THEN [pool |-> [IdlePool EXCEPT !.pc = "trying"],
        use |-> [starts |-> use.starts + 1,
                 users |-> Append(use.users, PoolUser(p.pc, "awaiting"))]]
  ELSE [pool |-> p,
        use |-> [use EXCEPT !.users = Append(@, PoolUser(p.pc, "awaiting"))]]

\* const pool = await this.getOrCreatePool(), up to the await, in get, has,
\* set, del, modify, allKeys or an index's get.
GetOrCreatePool ==
  /\ backingStore = "PostgresStore"
  /\ RuntimeErr = Ok
  /\ Len(poolUse.users) < MaxPoolCalls
  /\ With(getOrCreatePool(pool, poolUse), LAMBDA r :
       /\ pool' = r.pool
       /\ poolUse' = r.use)
  /\ UNCHANGED <<personaVars, declVars, storeVars, buildVars, declCount>>
  /\ UNCHANGED <<handlers, teardownRun, argv, commandEntry, exitCode, idVars>>
  /\ UNCHANGED <<twin, txns>>

\* The await of operation number i ends: the promise has settled.
PoolAwaited(i) ==
  /\ i \in DOMAIN poolUse.users
  /\ poolUse.users[i].got = "awaiting"
  /\ pool.pc \in {"ready", "failed"}
  /\ poolUse' = [poolUse EXCEPT !.users[i].got =
                   IF pool.pc = "ready" THEN Ok ELSE pool.err]
  /\ UNCHANGED <<personaVars, declVars, storeVars, buildVars, declCount>>
  /\ UNCHANGED <<pool, handlers, teardownRun, argv, commandEntry, exitCode, idVars>>
  /\ UNCHANGED <<twin, txns>>

\* Each attempt to connect takes this long in the runs of the operations.
PoolAttemptTime == 3000

NextPoolUse ==
  \/ NewPersona(appA, "node", "returns", Undefined)
  \/ NewStore(storeId)
  \/ RunPersona(<<>>)
  \/ GetOrCreatePool
  \/ \E i \in 1..MaxPoolCalls : PoolAwaited(i)
  \/ \E outcome \in AttemptOutcomes, delay \in Delays(pool.attempt) :
       ConnectAttempt(outcome, PoolAttemptTime, delay)
  \/ BackoffElapsed

SpecPoolUse == InitPoolProgram /\ [][NextPoolUse]_vars

\* C36: createPool is called at most once for a store; an operation issued
\* while it connects or after it has settled starts no attempt, and every
\* operation's await comes to what that one call came to: the pool, or, after
\* it has failed, its error.
C36_OnePool ==
  /\ poolUse.starts <= 1
  /\ poolUse.starts = 0 <=> pool.pc = "idle"
  /\ \A i \in DOMAIN poolUse.users :
       /\ poolUse.users[i].at = "idle" <=> i = 1
       /\ poolUse.users[i].got # "awaiting" =>
            /\ pool.pc \in {"ready", "failed"}
            /\ poolUse.users[i].got = (IF pool.pc = "ready" THEN Ok ELSE pool.err)

\* Three operations: the first started the connection, the second was issued
\* while it was connecting, the third after it had failed; createPool ran
\* once and the three have the same error.
C36_Witness ==
  /\ poolUse.starts = 1
  /\ pool.pc = "failed"
  /\ Len(poolUse.users) = 3
  /\ poolUse.users[1].at = "idle"
  /\ poolUse.users[2].at \in {"trying", "sleeping"}
  /\ poolUse.users[3].at = "failed"
  /\ \A i \in 1..3 : poolUse.users[i].got = pool.err /\ pool.err # Ok

(***************************************************************************)
(* Ports: the ledger of the ports file over the builds that share it.      *)
(***************************************************************************)
\* The numbers a Port has been given at build time.
NumbersOf(e) == {v.num : v \in Range(e[2])}

\* C37: at build time, over the builds that share the ports file, no two
\* Ports of distinct identities hold the same number, and the stored next-port
\* counter is greater than every number given out.
C37_LedgerSound ==
  /\ \A i, j \in DOMAIN PortsResolved :
       i # j => NumbersOf(PortsResolved[i]) \cap NumbersOf(PortsResolved[j]) = {}
  /\ \A i \in DOMAIN PortsResolved :
       /\ PortCounter # None
       /\ \A n \in NumbersOf(PortsResolved[i]) : n < JSONParse(PortCounter[1]).num

\* The Port of identity rootId('nextPortNumber') and another Port hold the
\* same number, and the counter is not above the number of the former.
C37_Witness ==
  \E i, j \in DOMAIN PortsResolved :
    /\ PortsResolved[i][1] = idToSafeName(rootId("nextPortNumber"))
    /\ PortsResolved[j][1] # PortsResolved[i][1]
    /\ NumbersOf(PortsResolved[i]) \cap NumbersOf(PortsResolved[j]) # {}
    /\ PortCounter # None
    /\ \E n \in NumbersOf(PortsResolved[i]) : n >= JSONParse(PortCounter[1]).num

\* Besides, the ledger is sound for the Ports whose identity is not the key
\* of the counter.
Ledger_SoundOtherwise ==
  LET others == SelectSeq(PortsResolved,
                          LAMBDA e : e[1] # idToSafeName(rootId("nextPortNumber")))
  IN  /\ \A i, j \in DOMAIN others :
           i # j => NumbersOf(others[i]) \cap NumbersOf(others[j]) = {}
      /\ \A i \in DOMAIN others :
           /\ PortCounter # None
           /\ \A n \in NumbersOf(others[i]) : n < JSONParse(PortCounter[1]).num

(***************************************************************************)
(* runningInProcess and the persona that runs.                             *)
(***************************************************************************)
\* The persona runPersona selected is the in-process persona.
RunsInProcessPersona == currentPersona = inProcessPersona.environmentVariableValue

\* C38: once runPersona has selected a persona, runningInProcess is true
\* exactly when that persona is the in-process persona, whatever the argument
\* of runPersona and the value of PERSONA; so a Store is in memory exactly in
\* the processes that run the in-process persona.
C38_InProcessFlag ==
  currentPersona # Undefined =>
    /\ runningInProcess <=> RunsInProcessPersona
    /\ backingStore # Undefined => (InMemory <=> RunsInProcessPersona)

\* PERSONA is unset and runPersona(id`app.a`) has selected the persona app.a:
\* runningInProcess is true, and the Store of the process is in memory.
C38_Witness ==
  /\ envPERSONA = Undefined
  /\ runningInProcess
  /\ lastCall.op = "runPersona"
  /\ lastCall.arg = appA
  /\ currentPersona = idToSafeName(appA)
  /\ InMemory

\* Besides, the flag and the persona agree when runPersona is called without
\* an argument.
InProcessFlag_WithoutArgument ==
  [][(RunPersona(<<>>) /\ currentPersona = Undefined /\ currentPersona' # Undefined) =>
       /\ runningInProcess <=> RunsInProcessPersona'
       /\ backingStore # Undefined => (InMemory <=> RunsInProcessPersona')]_vars

(***************************************************************************)
(* runPersona(p.id) for a registered persona p.                            *)
(***************************************************************************)
\* The first call of runPersona, with the identity of the i-th registered
\* persona.
RunsById(i) ==
  /\ i \in DOMAIN registeredPersonas
  /\ registeredPersonas[i].id \in RunArgs
  /\ currentPersona = Undefined
  /\ RunPersona(registeredPersonas[i].id)

\* C39: runPersona(p.id) selects the registered persona p and calls p's
\* entry point, also when p is registered under a key of its own choosing.
C39_SelectsById ==
  [][\A i \in 1..Len(registeredPersonas) :
       RunsById(i) =>
         /\ currentPersona' = registeredPersonas[i].environmentVariableValue
         /\ invoked' # <<>>
         /\ invoked'[1] = registeredPersonas[i].environmentVariableValue]_vars

\* runPersona(buildPersona.id) was the first call of runPersona: it raised,
\* and no persona runs.
C39_Witness ==
  /\ HasPersona(registeredPersonas, buildPersona.environmentVariableValue)
  /\ PersonaAt(registeredPersonas, buildPersona.environmentVariableValue).id
       = buildPersona.id
  /\ lastCall.op = "runPersona"
  /\ lastCall.arg = buildPersona.id
  /\ lastCall.outcome = "Error: No persona registered with ID"
  /\ currentPersona = Undefined
  /\ invoked = <<>>

\* Besides, runPersona(p.id) selects p when p is registered under the safe
\* name of its identity.
SelectsById_DefaultKey ==
  [][\A i \in 1..Len(registeredPersonas) :
       ( /\ RunsById(i)
         /\ registeredPersonas[i].environmentVariableValue
              = idToSafeName(registeredPersonas[i].id) ) =>
         /\ currentPersona' = registeredPersonas[i].environmentVariableValue
         /\ invoked' # <<>>
         /\ invoked'[1] = registeredPersonas[i].environmentVariableValue]_vars

(***************************************************************************)
(* idToSafeName: the first character of the name.                          *)
(***************************************************************************)
\* C40: the safe name of an identity starts with a letter or an underscore,
\* never with a digit.
C40_StartsWithLetter ==
  idOut.op = "idToSafeName" =>
    /\ idOut.b # <<>>
    /\ ~IsDigit(idOut.b[1])

\* idToSafeName(rootId('a')) is '0cc175b9c0f1b6a8_a'.
C40_Witness ==
  /\ idOut.op = "idToSafeName"
  /\ segsA = <<<<"a">>>>
  /\ idOut.b = SubSeq(md5_a, 1, maxHashLength) \o <<"_", "a">>
  /\ idOut.b[1] = "0"

\* Besides, the first character of the name is always the first character of
\* the digest.
SafeName_StartsWithHash ==
  idOut.op = "idToSafeName" =>
    /\ idOut.b # <<>>
    /\ idOut.b[1] = md5_hex(idOut.a)[1]

==============================================================================
